---- MODULE Spec2Model ----
(***************************************************************************)
(* Request signing and dispatch of the Aliyun OSS client for Deno          *)
(* (operation.ts, helper.ts, common.ts).                                   *)
(*                                                                         *)
(* A JavaScript string is a sequence of code units; a code unit is written *)
(* as the one-character TLA+ string that names it ("a", "/", " "), and     *)
(* code units U+0060 and U+00E9 as "U+0060" and "U+00E9".  A digest is     *)
(* one opaque element.                                                     *)
(* A JavaScript object used as a map is the sequence of its <<key, value>> *)
(* entries in property-enumeration order, with pairwise distinct keys.     *)
(***************************************************************************)
EXTENDS Integers, Sequences, FiniteSets, TLC

(***************************************************************************)
(* Code units                                                              *)
(***************************************************************************)

\* Printable ASCII in code order: Ascii[i] has code unit 31 + i.
Ascii ==
  << " ", "!", "\"", "#", "$", "%", "&", "'", "(", ")", "*", "+", ",", "-", ".", "/",
     "0", "1", "2", "3", "4", "5", "6", "7", "8", "9", ":", ";", "<", "=", ">", "?",
     "@", "A", "B", "C", "D", "E", "F", "G", "H", "I", "J", "K", "L", "M", "N", "O",
     "P", "Q", "R", "S", "T", "U", "V", "W", "X", "Y", "Z", "[", "\\", "]", "^", "_",
     "U+0060", "a", "b", "c", "d", "e", "f", "g", "h", "i", "j", "k", "l", "m", "n", "o",
     "p", "q", "r", "s", "t", "u", "v", "w", "x", "y", "z", "{", "|", "}", "~" >>

AsciiSet == { Ascii[i] : i \in 1..Len(Ascii) }

EAcute == "U+00E9"

\* The UTF-16 code unit of a character.
CodeTable ==
  [ c \in AsciiSet \cup {"\n", "\t", EAcute} |->
      IF c = "\n" THEN 10
      ELSE IF c = "\t" THEN 9
      ELSE IF c = EAcute THEN 233
      ELSE 31 + (CHOOSE i \in 1..Len(Ascii) : Ascii[i] = c) ]

Code(c) == CodeTable[c]

UpperLetters == { Ascii[i] : i \in 34..59 }
LowerLetters == { Ascii[i] : i \in 66..91 }
Digits == { Ascii[i] : i \in 17..26 }

\* String.prototype.toLowerCase on one code unit.
LowerChar(c) ==
  IF c \in UpperLetters THEN Ascii[(Code(c) + 32) - 31] ELSE c

ToLowerCase(s) == [ i \in 1..Len(s) |-> LowerChar(s[i]) ]

\* White space as String.prototype.trim sees it.
IsWhiteSpace(c) == c \in {" ", "\t", "\n"}

RECURSIVE TrimStart(_)
TrimStart(s) ==
  IF s # << >> /\ IsWhiteSpace(Head(s)) THEN TrimStart(Tail(s)) ELSE s

RECURSIVE TrimEnd(_)
TrimEnd(s) ==
  IF s # << >> /\ IsWhiteSpace(s[Len(s)])
    THEN TrimEnd(SubSeq(s, 1, Len(s) - 1))
    ELSE s

Trim(s) == TrimEnd(TrimStart(s))

StartsWith(s, p) == Len(s) >= Len(p) /\ SubSeq(s, 1, Len(p)) = p

Substring(s, from, to) == SubSeq(s, from + 1, to)

\* String.prototype.split with a one-character separator.
RECURSIVE Split(_, _)
Split(s, sep) ==
  LET at == { i \in 1..Len(s) : s[i] = sep }
  IN  IF at = {} THEN << s >>
      ELSE LET i == CHOOSE j \in at : \A k \in at : j <= k
           IN  << SubSeq(s, 1, i - 1) >> \o Split(SubSeq(s, i + 1, Len(s)), sep)

\* Array.prototype.join.
RECURSIVE Join(_, _)
Join(parts, sep) ==
  IF parts = << >> THEN << >>
  ELSE IF Len(parts) = 1 THEN parts[1]
  ELSE parts[1] \o sep \o Join(Tail(parts), sep)

\* The characters of a string run together, for reading and for digests.
RECURSIVE Str(_)
Str(s) ==
  IF s = << >> THEN ""
  ELSE IF Len(s) = 1 THEN s[1]
  ELSE LET half == Len(s) \div 2
       IN  Str(SubSeq(s, 1, half)) \o Str(SubSeq(s, half + 1, Len(s)))

(***************************************************************************)
(* encodeURIComponent                                                      *)
(***************************************************************************)

HexDigits ==
  << "0", "1", "2", "3", "4", "5", "6", "7", "8", "9", "A", "B", "C", "D", "E", "F" >>

PercentByte(b) == << "%", HexDigits[(b \div 16) + 1], HexDigits[(b % 16) + 1] >>

Utf8(c) ==
  LET u == Code(c)
  IN  IF u < 128 THEN << u >>
      ELSE << 192 + (u \div 64), 128 + (u % 64) >>

UriUnreserved ==
  UpperLetters \cup LowerLetters \cup Digits
    \cup {"-", "_", ".", "!", "~", "*", "'", "(", ")"}

EncodeChar(c) ==
  IF c \in UriUnreserved THEN << c >>
  ELSE LET bs == Utf8(c)
       IN  IF Len(bs) = 1 THEN PercentByte(bs[1])
           ELSE PercentByte(bs[1]) \o PercentByte(bs[2])

RECURSIVE EncodeURIComponent(_)
EncodeURIComponent(s) ==
  IF s = << >> THEN << >>
  ELSE EncodeChar(Head(s)) \o EncodeURIComponent(Tail(s))

(***************************************************************************)
(* String comparison                                                       *)
(***************************************************************************)

Signum(n) == IF n < 0 THEN -1 ELSE IF n > 0 THEN 1 ELSE 0

\* Lexicographic comparison of two sequences of integers: -1, 0 or 1.
LexCompare(a, b) ==
  LET n == IF Len(a) < Len(b) THEN Len(a) ELSE Len(b)
      diff == { i \in 1..n : a[i] # b[i] }
  IN  IF diff = {} THEN Signum(Len(a) - Len(b))
      ELSE LET i == CHOOSE j \in diff : \A k \in diff : j <= k
           IN  IF a[i] < b[i] THEN -1 ELSE 1

\* Comparison by code units.
OrdinalCompare(s1, s2) ==
  LexCompare([ i \in 1..Len(s1) |-> Code(s1[i]) ],
             [ i \in 1..Len(s2) |-> Code(s2[i]) ])

\* The collation order of the runtime's default collator (ICU root rules):
\* white space, punctuation and symbols, digits, then letters without
\* regard to case.
CollationOrder ==
  << "\t", "\n", " ", "_", "-", ",", ";", ":", "!", "?", ".", "'", "\"", "(", ")",
     "[", "]", "{", "}", "@", "*", "/", "\\", "&", "#", "%", "U+0060", "^", "+",
     "<", "=", ">", "|", "~", "$",
     "0", "1", "2", "3", "4", "5", "6", "7", "8", "9",
     "a", "b", "c", "d", "e", "f", "g", "h", "i", "j", "k", "l", "m",
     "n", "o", "p", "q", "r", "s", "t", "u", "v", "w", "x", "y", "z" >>

BaseLetter(c) == IF c = EAcute THEN "e" ELSE LowerChar(c)

PrimaryTable ==
  [ c \in DOMAIN CodeTable |->
      CHOOSE i \in 1..Len(CollationOrder) : CollationOrder[i] = BaseLetter(c) ]

PrimaryWeight(c) == PrimaryTable[c]
SecondaryWeight(c) == IF c = EAcute THEN 1 ELSE 0
TertiaryWeight(c) == IF c \in UpperLetters THEN 1 ELSE 0

\* String.prototype.localeCompare with no locale argument.
LocaleCompare(s1, s2) ==
  LET p == LexCompare([ i \in 1..Len(s1) |-> PrimaryWeight(s1[i]) ],
                      [ i \in 1..Len(s2) |-> PrimaryWeight(s2[i]) ])
      s == LexCompare([ i \in 1..Len(s1) |-> SecondaryWeight(s1[i]) ],
                      [ i \in 1..Len(s2) |-> SecondaryWeight(s2[i]) ])
      t == LexCompare([ i \in 1..Len(s1) |-> TertiaryWeight(s1[i]) ],
                      [ i \in 1..Len(s2) |-> TertiaryWeight(s2[i]) ])
  IN  IF p # 0 THEN p ELSE IF s # 0 THEN s ELSE t

\* Array.prototype.sort of entries by e1[0].localeCompare(e2[0]); the sort
\* is stable, so entries that compare equal keep their order.
RECURSIVE InsertByLocale(_, _)
InsertByLocale(sorted, e) ==
  IF sorted = << >> THEN << e >>
  ELSE LET last == sorted[Len(sorted)]
       IN  IF LocaleCompare(last[1], e[1]) <= 0 THEN Append(sorted, e)
           ELSE Append(InsertByLocale(SubSeq(sorted, 1, Len(sorted) - 1), e), last)

RECURSIVE SortByLocale(_)
SortByLocale(entries) ==
  IF entries = << >> THEN << >>
  ELSE InsertByLocale(SortByLocale(SubSeq(entries, 1, Len(entries) - 1)),
                      entries[Len(entries)])

(***************************************************************************)
(* String literals of operation.ts                                         *)
(***************************************************************************)

SIG_VERSION ==
  << "O", "S", "S", "4", "-", "H", "M", "A", "C", "-", "S", "H", "A", "2",
       "5", "6" >>

UNSIGNED_PAYLOAD ==
  << "U", "N", "S", "I", "G", "N", "E", "D", "-", "P", "A", "Y", "L", "O",
       "A", "D" >>

SdkClient ==
  << "d", "e", "n", "o", "/", "0", ".", "1", ".", "0" >>

HDate ==
  << "d", "a", "t", "e" >>

HHost ==
  << "h", "o", "s", "t" >>

HSdkClient ==
  << "x", "-", "s", "d", "k", "-", "c", "l", "i", "e", "n", "t" >>

HOssContentSha256 ==
  << "x", "-", "o", "s", "s", "-", "c", "o", "n", "t", "e", "n", "t", "-",
       "s", "h", "a", "2", "5", "6" >>

HOssDate ==
  << "x", "-", "o", "s", "s", "-", "d", "a", "t", "e" >>

HContentLength ==
  << "c", "o", "n", "t", "e", "n", "t", "-", "l", "e", "n", "g", "t", "h" >>

HContentType ==
  << "c", "o", "n", "t", "e", "n", "t", "-", "t", "y", "p", "e" >>

HContentMd5 ==
  << "c", "o", "n", "t", "e", "n", "t", "-", "m", "d", "5" >>

HAuthorization ==
  << "A", "u", "t", "h", "o", "r", "i", "z", "a", "t", "i", "o", "n" >>

OssPrefix ==
  << "x", "-", "o", "s", "s", "-" >>

KeyPrefix ==
  << "a", "l", "i", "y", "u", "n", "_", "v", "4" >>

ServiceName ==
  << "o", "s", "s" >>

Terminator ==
  << "a", "l", "i", "y", "u", "n", "_", "v", "4", "_", "r", "e", "q", "u",
       "e", "s", "t" >>

ScopeTail ==
  << "/", "o", "s", "s", "/", "a", "l", "i", "y", "u", "n", "_", "v", "4",
       "_", "r", "e", "q", "u", "e", "s", "t" >>

CredentialEq ==
  << " ", "C", "r", "e", "d", "e", "n", "t", "i", "a", "l", "=" >>

AdditionalHeadersEq ==
  << ",", "A", "d", "d", "i", "t", "i", "o", "n", "a", "l", "H", "e", "a",
       "d", "e", "r", "s", "=" >>

SignatureEq ==
  << ",", "S", "i", "g", "n", "a", "t", "u", "r", "e", "=" >>

Https ==
  << "h", "t", "t", "p", "s", ":", "/", "/" >>

Http ==
  << "h", "t", "t", "p", ":", "/", "/" >>

GMT ==
  << " ", "G", "M", "T" >>

(***************************************************************************)
(* Optional values, objects used as maps                                   *)
(***************************************************************************)

Undefined == [ def |-> FALSE ]
Some(v) == [ def |-> TRUE, v |-> v ]

\* JavaScript truthiness of an optional string: undefined and "" are falsy.
Truthy(x) == x.def /\ x.v # << >>

Keys(obj) == [ i \in 1..Len(obj) |-> obj[i][1] ]

HasKey(obj, k) == \E i \in 1..Len(obj) : obj[i][1] = k

Get(obj, k) == obj[CHOOSE i \in 1..Len(obj) : obj[i][1] = k][2]

\* obj[k] = v: an existing property keeps its place, a new one goes last.
SetProp(obj, k, v) ==
  IF HasKey(obj, k)
    THEN [ i \in 1..Len(obj) |-> IF obj[i][1] = k THEN << k, v >> ELSE obj[i] ]
    ELSE Append(obj, << k, v >>)

\* Object.assign(target, source); an undefined source is skipped.
RECURSIVE AssignEntries(_, _)
AssignEntries(target, entries) ==
  IF entries = << >> THEN target
  ELSE AssignEntries(SetProp(target, Head(entries)[1], Head(entries)[2]),
                     Tail(entries))

ObjectAssign(target, source) ==
  IF source.def THEN AssignEntries(target, source.v) ELSE target

(***************************************************************************)
(* Date                                                                    *)
(***************************************************************************)

DecimalDigits == << "0", "1", "2", "3", "4", "5", "6", "7", "8", "9" >>

\* Number to decimal string.
RECURSIVE NatToString(_)
NatToString(n) ==
  IF n < 10 THEN << DecimalDigits[n + 1] >>
  ELSE Append(NatToString(n \div 10), DecimalDigits[(n % 10) + 1])

NumberToString(n) == IF n < 0 THEN << "-" >> \o NatToString(0 - n) ELSE NatToString(n)

\* A number left-padded with zeros to a width.
RECURSIVE Pad(_, _)
Pad(n, width) ==
  IF width = 0 THEN << >>
  ELSE Append(Pad(n \div 10, width - 1), DecimalDigits[(n % 10) + 1])

DayNames ==
  << << "S", "u", "n" >>, << "M", "o", "n" >>, << "T", "u", "e" >>,
     << "W", "e", "d" >>, << "T", "h", "u" >>, << "F", "r", "i" >>,
     << "S", "a", "t" >> >>

MonthNames ==
  << << "J", "a", "n" >>, << "F", "e", "b" >>, << "M", "a", "r" >>,
     << "A", "p", "r" >>, << "M", "a", "y" >>, << "J", "u", "n" >>,
     << "J", "u", "l" >>, << "A", "u", "g" >>, << "S", "e", "p" >>,
     << "O", "c", "t" >>, << "N", "o", "v" >>, << "D", "e", "c" >> >>

\* Date.prototype.toISOString: YYYY-MM-DDTHH:mm:ss.sssZ (years 0..9999).
ToISOString(t) ==
  Pad(t.year, 4) \o << "-" >> \o Pad(t.month, 2) \o << "-" >> \o Pad(t.day, 2)
    \o << "T" >> \o Pad(t.hours, 2) \o << ":" >> \o Pad(t.minutes, 2)
    \o << ":" >> \o Pad(t.seconds, 2) \o << "." >> \o Pad(t.ms, 3) \o << "Z" >>

\* Date.prototype.toUTCString: Www, DD Mmm YYYY HH:mm:ss GMT.
ToUTCString(t) ==
  DayNames[t.weekday + 1] \o << ",", " " >> \o Pad(t.day, 2) \o << " " >>
    \o MonthNames[t.month] \o << " " >> \o Pad(t.year, 4) \o << " " >>
    \o Pad(t.hours, 2) \o << ":" >> \o Pad(t.minutes, 2) \o << ":" >>
    \o Pad(t.seconds, 2) \o GMT

\* String.prototype.replaceAll(/[\-:]/g, "").
RemoveDashColon(s) == SelectSeq(s, LAMBDA c : c \notin {"-", ":"})

ossDateString(t) ==
  LET s == ToISOString(t)
      cut == Substring(s, 0, Len(s) - 5) \o << "Z" >>
  IN  RemoveDashColon(cut)

(***************************************************************************)
(* Canonicalizer (private methods of Operation)                            *)
(***************************************************************************)

\* The key encoded as a whole, separators included.
EncodeSegments_WholeKey(objectKey) == EncodeURIComponent(objectKey)

EncodeSegments(objectKey) ==
  LET segs == Split(objectKey, "/")
  IN  Join([ i \in 1..Len(segs) |-> EncodeURIComponent(segs[i]) ], << "/" >>)

BuildCanonicalUri(bucketName, objectKey) ==
  IF Truthy(bucketName) /\ Truthy(objectKey)
    THEN << "/" >> \o EncodeURIComponent(bucketName.v) \o << "/" >>
           \o EncodeSegments(objectKey.v)
  ELSE IF Truthy(bucketName) /\ ~Truthy(objectKey)
    THEN << "/" >> \o EncodeURIComponent(bucketName.v) \o << "/" >>
  ELSE IF ~Truthy(bucketName) /\ Truthy(objectKey)
    THEN << "/" >>
  ELSE << "/" >>

BuildRequestUri(objectKey) ==
  IF Truthy(objectKey) THEN << "/" >> \o EncodeSegments(objectKey.v)
  ELSE << "/" >>

\* Template-literal conversion of a query value that is not null/undefined.
ValueToString(v) ==
  IF v.t = "string" THEN v.s
  ELSE IF v.t = "number" THEN NumberToString(v.n)
  ELSE IF v.b THEN << "t", "r", "u", "e" >>
  ELSE << "f", "a", "l", "s", "e" >>

\* The blank test without trim().
QueryEntryString_NoTrim(e) ==
  LET k == e[1]
      v == e[2]
      s == IF v.t = "null" \/ v.t = "undefined" \/ Len(ValueToString(v)) = 0
             THEN << >>
             ELSE << "=" >> \o EncodeURIComponent(ValueToString(v))
  IN  k \o s

QueryEntryString(e) ==
  LET k == e[1]
      v == e[2]
      s == IF v.t = "null" \/ v.t = "undefined"
              \/ Len(Trim(ValueToString(v))) = 0
             THEN << >>
             ELSE << "=" >> \o EncodeURIComponent(ValueToString(v))
  IN  k \o s

BuildCanonicalQueryString(query) ==
  IF ~query.def THEN << >>
  ELSE LET sorted == SortByLocale(query.v)
       IN  Join([ i \in 1..Len(sorted) |-> QueryEntryString(sorted[i]) ], << "&" >>)

BuildCanonicalHeaders(headers) ==
  IF ~headers.def THEN << "\n" >>
  ELSE LET mapped == [ i \in 1..Len(headers.v) |->
                         << ToLowerCase(headers.v[i][1]), Trim(headers.v[i][2]) >> ]
           sorted == SortByLocale(mapped)
       IN  Join([ i \in 1..Len(sorted) |-> sorted[i][1] \o << ":" >> \o sorted[i][2] ],
                << "\n" >>) \o << "\n" >>

(***************************************************************************)
(* Digests.  SHA-256 and HMAC-SHA256 are collision-free constructors: a    *)
(* byte array is the string that records how it was computed, and its hex  *)
(* encoding is one opaque element of a string.                             *)
(***************************************************************************)

\* (new TextEncoder()).encode(s)
TextEncode(s) == "utf8[" \o Str(s) \o "]"

\* crypto.subtle.digest("SHA-256", data)
Sha256(data) == "sha256[" \o data \o "]"

\* hmac("sha256", key, msg)
Hmac(key, msg) == "hmac[key=" \o key \o ";msg=" \o msg \o "]"

\* encodeHex(bytes)
EncodeHex(bytes) == << "hex[" \o bytes \o "]" >>

(***************************************************************************)
(* State                                                                   *)
(***************************************************************************)

VARIABLES
  pc,                \* where the call of doRequest stands
  clientConfig,      \* Operation.#clientConfig
  requestConfig,     \* the argument of doRequest
  d,                 \* new Date()
  domainName, dateTimeString, dateString,
  allHeaders, headersToSign,
  canonicalUri, requestUri, canonicalQuery, canonicalHeaders,
  additionalHeaders, canonicalRequest, hashedRequest,
  scope, strToSign, keyData, msgData, signature, authorization,
  fullUrl,
  fetched,           \* the calls of fetch made by this call of doRequest
  response,          \* what the transport answered
  outcome,           \* what doRequest returned or threw
  calls,             \* the calls of doRequest in progress side by side
  facade,            \* the operation of a facade that is in progress
  listing,           \* the call of listAllBuckets that is in progress
  transfer,          \* the upload or download of a file that is in progress
  client,            \* the OssClient: what it was constructed with, #options
  clock              \* the time since the request went to the transport

\* The state around one call of doRequest, which no step of it writes.
outerVars == << calls, facade, listing, transfer, client, clock >>

\* What the operations of the facades leave alone around doRequest.
facadeRest == << calls, listing, transfer, client, clock >>

\* What listAllBuckets leaves alone around doRequest.
listingRest == << calls, facade, transfer, client, clock >>

\* What the wait for the transport leaves alone around doRequest.
clockRest == << calls, facade, listing, transfer, client >>

\* What putObject and getObject leave alone around doRequest.
transferRest == << calls, facade, listing, client, clock >>

configVars == << clientConfig, outerVars >>
inputVars == << requestConfig, d >>
headerVars == << domainName, dateTimeString, dateString, allHeaders, headersToSign >>
canonVars ==
  << canonicalUri, requestUri, canonicalQuery, canonicalHeaders,
     additionalHeaders, canonicalRequest, hashedRequest >>
signVars == << scope, strToSign, keyData, msgData, signature, authorization >>
wireVars == << fullUrl, fetched, response, outcome >>

vars == << pc, configVars, inputVars, headerVars, canonVars, signVars, wireVars >>

(***************************************************************************)
(* Inputs                                                                  *)
(***************************************************************************)

GET == << "G", "E", "T" >>
POST == << "P", "O", "S", "T" >>
PUT == << "P", "U", "T" >>
DELETE == << "D", "E", "L", "E", "T", "E" >>
HEAD == << "H", "E", "A", "D" >>
OPTIONS == << "O", "P", "T", "I", "O", "N", "S" >>

HttpMethod == { GET, POST, PUT, DELETE, HEAD, OPTIONS }

StringValue(s) == [ t |-> "string", s |-> s ]
NumberValue(n) == [ t |-> "number", n |-> n ]
BooleanValue(b) == [ t |-> "boolean", b |-> b ]
NullValue == [ t |-> "null" ]
UndefinedValue == [ t |-> "undefined" ]

\* All sequences over a set with length 0..n.
SeqsUpTo(S, n) == UNION { [ 1..k -> S ] : k \in 0..n }

\* All maps of at most n entries drawn from a pool of entries, in every
\* property order, with pairwise distinct keys.
MapsFrom(pool, n) ==
  { m \in SeqsUpTo(pool, n) :
      \A i, j \in 1..Len(m) : i # j => m[i][1] # m[j][1] }

\* Two instants of the clock read by new Date().
Instants ==
  { [ year |-> 2024, month |-> 1, day |-> 1, hours |-> 0, minutes |-> 0,
      seconds |-> 0, ms |-> 0, weekday |-> 1 ],
    [ year |-> 2023, month |-> 12, day |-> 3, hours |-> 12, minutes |-> 12,
      seconds |-> 12, ms |-> 345, weekday |-> 0 ] }

\* The configurations an Operation is constructed with.
ClientConfigs ==
  { [ region |-> << "c", "n" >>,
      endpoint |-> << "o", "s", "s", ".", "i", "o" >>,
      accessKeyId |-> << "i", "d" >>,
      accessKeySecret |-> << "k", "e", "y" >>,
      secure |-> sec, cname |-> FALSE, timeoutMs |-> Undefined ] :
      sec \in BOOLEAN }

Methods == { GET, PUT }

BucketNames == { Undefined, Some(<< "b", "k" >>) }

ObjectKeys == { Undefined, Some(<< "a", "/", "b", " ", "c" >>) }

\* Headers a caller of doRequest passes in RequestConfig.headers, in the
\* order the caller writes them.
CallerHeaderPool ==
  << << << "C", "o", "n", "t", "e", "n", "t", "-", "T", "y", "p", "e" >>,
        << " ", "t", "/", "x", " " >> >>,
     << HOssDate,
        << "2", "0", "2", "0", "0", "2", "0", "2", "T", "0", "2", "0", "2", "0", "2", "Z" >> >>,
     << << "H", "o", "s", "t" >>, << "c", "d", "n" >> >>,
     << HContentLength, << "5" >> >>,
     << << "x", "-", "o", "s", "s", "-", "c", "o", "n", "t", "e", "n", "t", "_", "x" >>,
        << "m" >> >> >>

MaxCallerHeaders == 2

\* The entries of a pool at the positions of a set, in pool order.
Pick(pool, at) ==
  LET upTo[i \in 0..Len(pool)] ==
        IF i = 0 THEN << >>
        ELSE IF i \in at THEN Append(upTo[i - 1], pool[i]) ELSE upTo[i - 1]
  IN  upTo[Len(pool)]

CallerHeaders ==
  { Undefined }
    \cup { Some(Pick(CallerHeaderPool, at)) :
             at \in { a \in SUBSET (1..Len(CallerHeaderPool)) :
                        Cardinality(a) <= MaxCallerHeaders } }

MaxKeys == << "m", "a", "x", "-", "k", "e", "y", "s" >>
Marker == << "m", "a", "r", "k", "e", "r" >>

Queries ==
  { Undefined,
    Some(<< << MaxKeys, NumberValue(100) >>, << Marker, UndefinedValue >> >>),
    Some(<< << << "b" >>, StringValue(<< "2", " " >>) >>, << << "a" >>, NullValue >> >>) }

Bodies == { Undefined, Some("stream") }

\* A body goes with PUT only: fetch rejects a GET that has one.
RequestConfigs ==
  { r \in [ method : Methods, bucketName : BucketNames, objectKey : ObjectKeys,
            headers : CallerHeaders, query : Queries, body : Bodies ] :
      r.body.def => r.method = PUT }

(***************************************************************************)
(* Responses of the transport                                              *)
(***************************************************************************)

ServerStatusMessage ==
  << "a", "l", "i", "y", "u", "n", " ", "o", "s", "s", " ", "s", "e",
       "r", "v", "e", "r", " ", "r", "e", "s", "p", "o", "n", "s", "e",
       " ", "s", "t", "a", "t", "u", "s", ":", " " >>

UnknownError ==
  << "u", "n", "k", "n", "o", "w", "n", " ", "e", "r", "r", "o", "r" >>

\* The <Error> element of the provider's error envelope, as parseXml
\* delivers it.
ErrorNode ==
  [ Code |-> << "N", "o", "S", "u", "c", "h", "K", "e", "y" >>,
    Message |-> << "n", "o", " ", "k", "e", "y" >>,
    RequestId |-> << "r", "1" >>,
    HostId |-> << "h", "1" >>,
    BucketName |-> << "b", "k" >>,
    EC |-> << "e", "c" >>,
    RecommendDoc |-> << "d", "o", "c" >> ]

\* The headers of a response as the server writes them.
ResponseHeaders == << << << "E", "T", "a", "g" >>, << "x" >> >> >>

\* Headers.prototype.forEach hands out the names in lower case.
HeadersForEach(headers) ==
  [ i \in 1..Len(headers) |-> << ToLowerCase(headers[i][1]), headers[i][2] >> ]

\* The text of a response body: a well-formed XML document, given by what
\* it holds under the name Error, the empty text, text that is not
\* well-formed XML, or a body whose stream breaks off while it is read.
Envelope == [ kind |-> "xml", Error |-> Some(ErrorNode) ]
PlainDocument == [ kind |-> "xml", Error |-> Undefined ]
EmptyBody == [ kind |-> "empty" ]
MalformedBody == [ kind |-> "malformed" ]
AbortedBody == [ kind |-> "aborted" ]

Response(status, body) ==
  [ ok |-> TRUE, status |-> status, headers |-> ResponseHeaders, body |-> body ]

Responses ==
  { Response(200, PlainDocument), Response(200, AbortedBody),
    Response(304, EmptyBody),
    Response(404, Envelope), Response(404, PlainDocument),
    Response(404, EmptyBody), Response(400, MalformedBody),
    Response(503, PlainDocument) }

TransportFailure ==
  [ ok |-> FALSE, status |-> 0, headers |-> << >>, body |-> EmptyBody ]

NoResponse ==
  [ ok |-> FALSE, status |-> -1, headers |-> << >>, body |-> EmptyBody ]

\* parseXml of the xml module: the document of well-formed text (the empty
\* text gives a document without elements), a SyntaxError otherwise.
ParseXml(content) ==
  IF content.kind = "xml" THEN [ ok |-> TRUE, doc |-> [ Error |-> content.Error ] ]
  ELSE IF content.kind = "empty" THEN [ ok |-> TRUE, doc |-> [ Error |-> Undefined ] ]
  ELSE [ ok |-> FALSE ]

\* new ClientError(message, code, bucketName, requestId, hostId, ec,
\* recommendDoc, status)
ClientError(message, code, bucketName, requestId, hostId, ec, recommendDoc, status) ==
  [ message |-> message, code |-> code, bucketName |-> bucketName,
    requestId |-> requestId, hostId |-> hostId, ec |-> ec,
    recommendDoc |-> recommendDoc, status |-> status ]

\* ClientError.fromResponseContent, for content that parseXml accepts.
FromResponseContent(content) ==
  LET doc == ParseXml(content).doc
  IN  IF ~doc.Error.def
        THEN ClientError(Some(UnknownError), Undefined, Undefined, Undefined,
                         Undefined, Undefined, Undefined, Undefined)
        ELSE LET n == doc.Error.v
             IN  ClientError(Some(n.Message), Some(n.Code), Some(n.BucketName),
                         Some(n.RequestId), Some(n.HostId), Some(n.EC),
                         Some(n.RecommendDoc), Undefined)

NoOutcome == [ kind |-> "pending" ]
Returned(headers, content) ==
  [ kind |-> "return", headers |-> headers, content |-> content ]
Thrown(e) == [ kind |-> "throw", error |-> e ]
TransportError == [ kind |-> "throw-transport" ]
ParserError == [ kind |-> "throw-parser" ]

(***************************************************************************)
(* Operation.doRequest                                                     *)
(***************************************************************************)

NoText == << >>

\* No call in progress.
IdleRequest ==
  [ method |-> GET, bucketName |-> Undefined, objectKey |-> Undefined,
    headers |-> Undefined, query |-> Undefined, body |-> Undefined ]

ClearLocals ==
  /\ domainName' = NoText /\ dateTimeString' = NoText /\ dateString' = NoText
  /\ allHeaders' = << >> /\ headersToSign' = << >>
  /\ canonicalUri' = NoText /\ requestUri' = NoText /\ canonicalQuery' = NoText
  /\ canonicalHeaders' = NoText /\ additionalHeaders' = NoText
  /\ canonicalRequest' = NoText /\ hashedRequest' = NoText
  /\ scope' = NoText /\ strToSign' = NoText
  /\ keyData' = "" /\ msgData' = "" /\ signature' = NoText
  /\ authorization' = NoText
  /\ fullUrl' = NoText /\ fetched' = << >>
  /\ response' = NoResponse /\ outcome' = NoOutcome

\* One call of doRequest between two of its awaits: request is the
\* RequestConfig of the caller as it is, given what the caller wrote into it.
IdleCall ==
  [ phase |-> "idle", request |-> IdleRequest, given |-> IdleRequest,
    d |-> CHOOSE t \in Instants : TRUE,
    dateTimeString |-> NoText, additionalHeaders |-> NoText,
    canonicalRequest |-> NoText, authorization |-> NoText ]

MaxCalls == 2

NoCalls == [ i \in 1..MaxCalls |-> IdleCall ]

\* No operation of a facade in progress.
NoFacade ==
  [ name |-> "none", bucketName |-> Undefined, objectKey |-> Undefined,
    options |-> Undefined, phase |-> "none", result |-> NoOutcome ]

\* No call of listAllBuckets in progress.
NoListing ==
  [ phase |-> "none", server |-> << >>, marker |-> Undefined,
    allBuckets |-> << >>, results |-> << >>, result |-> NoOutcome ]

\* No upload or download of a file in progress.  handle is the state of the
\* Deno.FsFile of the operation, closeRaised whether a close() of it threw.
NoTransfer ==
  [ op |-> "none", step |-> "none", bucketName |-> Undefined,
    objectKey |-> Undefined, path |-> "none", handle |-> "none",
    closeRaised |-> FALSE, result |-> NoOutcome ]

\* The Operation was constructed on its own, without an OssClient.
NoClient == [ given |-> Undefined, options |-> Undefined ]

\* No request is with the transport.
NoClock == [ elapsed |-> 0, beat |-> 0 ]

\* Nothing around doRequest is in progress.
OuterIdle ==
  /\ calls = NoCalls
  /\ facade = NoFacade
  /\ listing = NoListing
  /\ transfer = NoTransfer
  /\ client = NoClient
  /\ clock = NoClock

Init ==
  /\ pc = "idle"
  /\ clientConfig \in ClientConfigs
  /\ requestConfig = IdleRequest
  /\ d \in Instants
  /\ domainName = NoText /\ dateTimeString = NoText /\ dateString = NoText
  /\ allHeaders = << >> /\ headersToSign = << >>
  /\ canonicalUri = NoText /\ requestUri = NoText /\ canonicalQuery = NoText
  /\ canonicalHeaders = NoText /\ additionalHeaders = NoText
  /\ canonicalRequest = NoText /\ hashedRequest = NoText
  /\ scope = NoText /\ strToSign = NoText
  /\ keyData = "" /\ msgData = "" /\ signature = NoText
  /\ authorization = NoText
  /\ fullUrl = NoText /\ fetched = << >>
  /\ response = NoResponse /\ outcome = NoOutcome
  /\ OuterIdle

\* A facade calls doRequest(requestConfig).
Call ==
  /\ pc = "idle"
  /\ requestConfig' \in RequestConfigs
  /\ d' \in Instants
  /\ ClearLocals
  /\ pc' = "headers"
  /\ UNCHANGED configVars

BaseHeaders(domain, date, dateTime) ==
  << << HDate, ToUTCString(date) >>,
     << HHost, domain >>,
     << HSdkClient, SdkClient >>,
     << HOssContentSha256, UNSIGNED_PAYLOAD >>,
     << HOssDate, dateTime >> >>

\* The content-length forced on a PUT without body.
ForceContentLength(headers, method, body) ==
  IF method = PUT /\ ~body.def
    THEN SetProp(headers, HContentLength, << "0" >>)
    ELSE headers

BuildDomainName(bucketName, endpoint) ==
  (IF Truthy(bucketName) THEN bucketName.v ELSE << >>)
    \o (IF Truthy(bucketName) THEN << "." >> ELSE << >>) \o endpoint

MergeHeaders(domain, date, dateTime, headers) ==
  ObjectAssign(BaseHeaders(domain, date, dateTime), headers)

BuildAllHeaders ==
  /\ pc = "headers"
  /\ LET domain == BuildDomainName(requestConfig.bucketName, clientConfig.endpoint)
         dateTime == ossDateString(d)
     IN  /\ domainName' = domain
         /\ dateTimeString' = dateTime
         /\ dateString' = Substring(dateTime, 0, 8)
         /\ allHeaders' =
              ForceContentLength(MergeHeaders(domain, d, dateTime, requestConfig.headers),
                                 requestConfig.method, requestConfig.body)
  /\ pc' = "select"
  /\ UNCHANGED << configVars, inputVars, headersToSign, canonVars, signVars, wireVars >>

\* The filter without toLowerCase().
IsSignedName_CaseSensitive(k) ==
  k = HContentType \/ k = HContentMd5 \/ k = HHost \/ StartsWith(k, OssPrefix)

\* The filter of the headers that are signed.
IsSignedName(k) ==
  LET s == ToLowerCase(k)
  IN  s = HContentType \/ s = HContentMd5 \/ s = HHost \/ StartsWith(s, OssPrefix)

\* Every header signed.
SelectHeaders_All(headers) == headers

SelectHeaders(headers) ==
  AssignEntries(<< >>, SelectSeq(headers, LAMBDA e : IsSignedName(e[1])))

SelectHeadersToSign ==
  /\ pc = "select"
  /\ headersToSign' = SelectHeaders(allHeaders)
  /\ pc' = "canonicalize"
  /\ UNCHANGED << configVars, inputVars, domainName, dateTimeString, dateString,
                  allHeaders, canonVars, signVars, wireVars >>

\* Array.prototype.sort of strings by k1.localeCompare(k2).
SortKeysByLocale(keys) ==
  LET sorted == SortByLocale([ i \in 1..Len(keys) |-> << keys[i] >> ])
  IN  [ i \in 1..Len(sorted) |-> sorted[i][1] ]

BuildAdditionalHeaders(headers) ==
  LET keys == Keys(headers)
      lowered == [ i \in 1..Len(keys) |-> ToLowerCase(keys[i]) ]
  IN  Join(SortKeysByLocale(lowered), << ";" >>)

\* The query string ahead of the URI.
BuildCanonicalRequest_QueryFirst(method, uri, query, headers, additional, hashedPayload) ==
  method \o << "\n" >> \o query \o << "\n" >> \o uri \o << "\n" >> \o headers
    \o << "\n" >> \o additional \o << "\n" >> \o hashedPayload

BuildCanonicalRequest(method, uri, query, headers, additional, hashedPayload) ==
  method \o << "\n" >> \o uri \o << "\n" >> \o query \o << "\n" >> \o headers
    \o << "\n" >> \o additional \o << "\n" >> \o hashedPayload

Canonicalize ==
  /\ pc = "canonicalize"
  /\ LET uri == BuildCanonicalUri(requestConfig.bucketName, requestConfig.objectKey)
         query == BuildCanonicalQueryString(requestConfig.query)
         headers == BuildCanonicalHeaders(Some(headersToSign))
         additional == BuildAdditionalHeaders(headersToSign)
     IN  /\ canonicalUri' = uri
         /\ requestUri' = BuildRequestUri(requestConfig.objectKey)
         /\ canonicalQuery' = query
         /\ canonicalHeaders' = headers
         /\ additionalHeaders' = additional
         /\ canonicalRequest' =
              BuildCanonicalRequest(requestConfig.method, uri, query, headers,
                                    additional, UNSIGNED_PAYLOAD)
  /\ pc' = "digest"
  /\ UNCHANGED << configVars, inputVars, headerVars, hashedRequest, signVars, wireVars >>

HashCanonicalRequest ==
  /\ pc = "digest"
  /\ hashedRequest' = EncodeHex(Sha256(TextEncode(canonicalRequest)))
  /\ pc' = "scope"
  /\ UNCHANGED << configVars, inputVars, headerVars, canonicalUri, requestUri,
                  canonicalQuery, canonicalHeaders, additionalHeaders,
                  canonicalRequest, signVars, wireVars >>

BuildScope(date, region) == date \o << "/" >> \o region \o ScopeTail

BuildStrToSign(dateTime, sc, hashed) ==
  SIG_VERSION \o << "\n" >> \o dateTime \o << "\n" >> \o sc \o << "\n" >> \o hashed

BuildStringToSign ==
  /\ pc = "scope"
  /\ LET sc == BuildScope(dateString, clientConfig.region)
     IN  /\ scope' = sc
         /\ strToSign' = BuildStrToSign(dateTimeString, sc, hashedRequest)
  /\ pc' = "secret"
  /\ UNCHANGED << configVars, inputVars, headerVars, canonVars, keyData, msgData,
                  signature, authorization, wireVars >>

\* Key and message exchanged.
DeriveKey_Swapped(key, msg) == Hmac(msg, key)

\* One link of the key chain: keyData = hmac("sha256", keyData, msgData).
DeriveKey(key, msg) == Hmac(key, msg)

signFrame ==
  << configVars, inputVars, headerVars, canonVars, scope, strToSign, authorization,
     wireVars >>

EncodeSecret ==
  /\ pc = "secret"
  /\ keyData' = TextEncode(KeyPrefix \o clientConfig.accessKeySecret)
  /\ pc' = "dateKey"
  /\ UNCHANGED << signFrame, msgData, signature >>

DeriveDateKey ==
  /\ pc = "dateKey"
  /\ msgData' = TextEncode(dateString)
  /\ keyData' = DeriveKey(keyData, msgData')
  /\ pc' = "regionKey"
  /\ UNCHANGED << signFrame, signature >>

DeriveRegionKey ==
  /\ pc = "regionKey"
  /\ msgData' = TextEncode(clientConfig.region)
  /\ keyData' = DeriveKey(keyData, msgData')
  /\ pc' = "serviceKey"
  /\ UNCHANGED << signFrame, signature >>

DeriveServiceKey ==
  /\ pc = "serviceKey"
  /\ msgData' = TextEncode(ServiceName)
  /\ keyData' = DeriveKey(keyData, msgData')
  /\ pc' = "signingKey"
  /\ UNCHANGED << signFrame, signature >>

DeriveSigningKey ==
  /\ pc = "signingKey"
  /\ msgData' = TextEncode(Terminator)
  /\ keyData' = DeriveKey(keyData, msgData')
  /\ pc' = "sign"
  /\ UNCHANGED << signFrame, signature >>

Sign ==
  /\ pc = "sign"
  /\ msgData' = TextEncode(strToSign)
  /\ signature' = EncodeHex(Hmac(keyData, msgData'))
  /\ pc' = "authorize"
  /\ UNCHANGED << signFrame, keyData >>

BuildAuthorization(accessKeyId, sc, additional, sig) ==
  SIG_VERSION \o CredentialEq \o accessKeyId \o << "/" >> \o sc
    \o AdditionalHeadersEq \o additional \o SignatureEq \o sig

\* The header values trimmed while Authorization is inserted.
InsertAuthorization_Trimming(headers, value) ==
  SetProp([ i \in 1..Len(headers) |-> << headers[i][1], Trim(headers[i][2]) >> ],
          HAuthorization, value)

\* allHeaders["Authorization"] = authorization
InsertAuthorization(headers, value) == SetProp(headers, HAuthorization, value)

Authorize ==
  /\ pc = "authorize"
  /\ LET auth == BuildAuthorization(clientConfig.accessKeyId, scope,
                                    additionalHeaders, signature)
     IN  /\ authorization' = auth
         /\ allHeaders' = InsertAuthorization(allHeaders, auth)
  /\ pc' = "url"
  /\ UNCHANGED << configVars, inputVars, domainName, dateTimeString, dateString,
                  headersToSign, canonVars, scope, strToSign, keyData, msgData,
                  signature, wireVars >>

\* The '?' appended whether or not there is a query.
BuildFullUrl_AlwaysQuery(secure, domain, uri, query) ==
  (IF secure THEN Https ELSE Http) \o domain \o uri \o << "?" >> \o query

BuildFullUrl(secure, domain, uri, query) ==
  LET base == (IF secure THEN Https ELSE Http) \o domain \o uri
  IN  IF query # << >> THEN base \o << "?" >> \o query ELSE base

BuildUrl ==
  /\ pc = "url"
  /\ fullUrl' = BuildFullUrl(clientConfig.secure, domainName, requestUri, canonicalQuery)
  /\ pc' = "fetch"
  /\ UNCHANGED << configVars, inputVars, headerVars, canonVars, signVars,
                  fetched, response, outcome >>

\* The RequestInit handed to fetch, with the URL.
WireRequest ==
  [ url |-> fullUrl, method |-> requestConfig.method, headers |-> allHeaders,
    body |-> requestConfig.body ]

\* A request that the transport failed on or the server refused sent again.
FetchFrom_Resending(answers) ==
  /\ pc = "fetch"
  /\ response' \in answers
  /\ fetched' = IF response'.ok /\ response'.status < 500
                  THEN Append(fetched, WireRequest)
                  ELSE fetched \o << WireRequest, WireRequest >>
  /\ pc' = "status"
  /\ UNCHANGED << configVars, inputVars, headerVars, canonVars, signVars,
                  fullUrl, outcome >>

\* await fetch(fullUrl, requestInit): the transport answers or fails.
FetchFrom(answers) ==
  /\ pc = "fetch"
  /\ fetched' = Append(fetched, WireRequest)
  /\ response' \in answers
  /\ pc' = "status"
  /\ UNCHANGED << configVars, inputVars, headerVars, canonVars, signVars,
                  fullUrl, outcome >>

\* What fetch settles with: a response, or the rejection of its promise.
FetchAnswers == Responses \cup { TransportFailure }

Fetch == FetchFrom(FetchAnswers)

ServerError(status) ==
  ClientError(Some(ServerStatusMessage \o NumberToString(status)), Undefined,
              Undefined, Undefined, Undefined, Undefined, Undefined, Undefined)

\* A rejected fetch answered with an empty result.
Classify_SwallowTransport(r) ==
  IF ~r.ok THEN Returned(<< >>, EmptyBody)
  ELSE IF r.status >= 400 THEN Thrown(ServerError(r.status))
  ELSE Returned(HeadersForEach(r.headers), r.body)

\* The classification of the response: fetch rejects, status >= 500,
\* response.text() rejects, status 4xx (fromResponseContent has no guard
\* around parseXml), or the result.  What is thrown passes through the
\* catch block, which logs and throws it again.
Classify(r) ==
  IF ~r.ok THEN TransportError
  ELSE IF r.status >= 500 THEN Thrown(ServerError(r.status))
  ELSE IF r.body.kind = "aborted" THEN TransportError
  ELSE IF 400 <= r.status /\ r.status < 500
    THEN IF ParseXml(r.body).ok THEN Thrown(FromResponseContent(r.body))
         ELSE ParserError
  ELSE Returned(HeadersForEach(r.headers), r.body)

HandleResponse ==
  /\ pc = "status"
  /\ outcome' = Classify(response)
  /\ pc' = "done"
  /\ UNCHANGED << configVars, inputVars, headerVars, canonVars, signVars,
                  fullUrl, fetched, response >>

\* The caller has the result; the Operation is ready for the next call.
Return ==
  /\ pc = "done"
  /\ pc' = "idle"
  /\ requestConfig' = IdleRequest
  /\ ClearLocals
  /\ UNCHANGED << configVars, d >>

Next ==
  \/ Call
  \/ BuildAllHeaders
  \/ SelectHeadersToSign
  \/ Canonicalize
  \/ HashCanonicalRequest
  \/ BuildStringToSign
  \/ EncodeSecret
  \/ DeriveDateKey
  \/ DeriveRegionKey
  \/ DeriveServiceKey
  \/ DeriveSigningKey
  \/ Sign
  \/ Authorize
  \/ BuildUrl
  \/ Fetch
  \/ HandleResponse
  \/ Return

Spec == Init /\ [][Next]_vars

(***************************************************************************)
(* The canonicalizer on its own: each specification draws the arguments of *)
(* one private method and applies it.                                      *)
(***************************************************************************)

RestIdle ==
  /\ clientConfig \in { c \in ClientConfigs : c.secure }
  /\ d \in { t \in Instants : t.year = 2024 }
  /\ domainName = NoText /\ dateTimeString = NoText /\ dateString = NoText
  /\ allHeaders = << >>
  /\ canonicalRequest = NoText /\ hashedRequest = NoText
  /\ additionalHeaders = NoText
  /\ scope = NoText /\ strToSign = NoText
  /\ keyData = "" /\ msgData = "" /\ signature = NoText
  /\ authorization = NoText
  /\ fullUrl = NoText /\ fetched = << >>
  /\ response = NoResponse /\ outcome = NoOutcome

\* ---- #buildCanonicalQueryString ----

MaxQueryEntries == 2

QueryKeyAlphabet == { "a", "B", "_" }

\* Keys of one or two characters.
QueryKeys == SeqsUpTo(QueryKeyAlphabet, 2) \ { << >> }

QueryValues ==
  { NullValue, UndefinedValue, StringValue(<< >>), StringValue(<< " ", "\t" >>),
    StringValue(<< "2", "/", " " >>), NumberValue(100), BooleanValue(TRUE) }

QueryExamples ==
  { << << MaxKeys, NumberValue(100) >>, << Marker, UndefinedValue >> >>,
    << << << "b" >>, StringValue(<< "2" >>) >>, << << "a" >>, NullValue >> >> }

QueryInputs ==
  { Undefined }
    \cup { Some(m) : m \in MapsFrom(QueryKeys \X QueryValues, MaxQueryEntries) }
    \cup { Some(m) : m \in QueryExamples }

QueryInit ==
  /\ pc = "query"
  /\ requestConfig \in { [ IdleRequest EXCEPT !.query = q ] : q \in QueryInputs }
  /\ headersToSign = << >>
  /\ canonicalUri = NoText /\ requestUri = NoText
  /\ canonicalQuery = NoText /\ canonicalHeaders = NoText
  /\ RestIdle
  /\ OuterIdle

ApplyCanonicalQueryString ==
  /\ pc = "query"
  /\ canonicalQuery' = BuildCanonicalQueryString(requestConfig.query)
  /\ pc' = "queryDone"
  /\ UNCHANGED << configVars, inputVars, headerVars, canonicalUri, requestUri,
                  canonicalHeaders, additionalHeaders, canonicalRequest,
                  hashedRequest, signVars, wireVars >>

QuerySpec == QueryInit /\ [][ApplyCanonicalQueryString]_vars

\* ---- #buildCanonicalHeaders ----

MaxHeaderEntries == 2

HeaderNames ==
  { << "H", "o", "s", "t" >>, HHost,
    << "C", "o", "n", "t", "e", "n", "t", "-", "T", "y", "p", "e" >>,
    << "x", "-", "o", "s", "s", "-", "a", "_" >>,
    << "x", "-", "o", "s", "s", "-", "a", "0" >> }

HeaderValues == { << "v" >>, << " ", "w", "\t" >> }

HeaderInputs ==
  { Undefined }
    \cup { Some(m) : m \in MapsFrom(HeaderNames \X HeaderValues, MaxHeaderEntries) }

\* The argument of #buildCanonicalHeaders is held in headersToSign; the
\* absent argument is the pc value "headersAbsent".
HeadersInit ==
  /\ \E h \in HeaderInputs :
       /\ pc = IF h.def THEN "headersArg" ELSE "headersAbsent"
       /\ headersToSign = IF h.def THEN h.v ELSE << >>
  /\ requestConfig = IdleRequest
  /\ canonicalUri = NoText /\ requestUri = NoText
  /\ canonicalQuery = NoText /\ canonicalHeaders = NoText
  /\ RestIdle
  /\ OuterIdle

HeadersArg == IF pc = "headersAbsent" THEN Undefined ELSE Some(headersToSign)

ApplyCanonicalHeaders ==
  /\ pc \in {"headersArg", "headersAbsent"}
  /\ canonicalHeaders' = BuildCanonicalHeaders(HeadersArg)
  /\ pc' = "headersDone"
  /\ UNCHANGED << configVars, inputVars, headerVars, canonicalUri, requestUri,
                  canonicalQuery, additionalHeaders, canonicalRequest,
                  hashedRequest, signVars, wireVars >>

HeadersSpec == HeadersInit /\ [][ApplyCanonicalHeaders]_vars

\* ---- #buildCanonicalUri and #buildRequestUri ----

MaxObjectKeyLen == 3

ObjectKeyAlphabet == { "a", "/", " ", "#" }

MyBucket == << "m", "y", "-", "b", "u", "c", "k", "e", "t" >>
ExampleKey == << "a", "/", "b", " ", "c", ".", "p", "n", "g" >>

UriBuckets ==
  { Undefined, Some(<< >>), Some(MyBucket), Some(<< "b", " ", "/" >>) }

UriKeys ==
  { Undefined, Some(ExampleKey) }
    \cup { Some(k) : k \in SeqsUpTo(ObjectKeyAlphabet, MaxObjectKeyLen) }

UriInit ==
  /\ pc = "uri"
  /\ requestConfig \in
       { [ IdleRequest EXCEPT !.bucketName = b, !.objectKey = k ] :
           b \in UriBuckets, k \in UriKeys }
  /\ headersToSign = << >>
  /\ canonicalUri = NoText /\ requestUri = NoText
  /\ canonicalQuery = NoText /\ canonicalHeaders = NoText
  /\ RestIdle
  /\ OuterIdle

ApplyCanonicalUri ==
  /\ pc = "uri"
  /\ canonicalUri' = BuildCanonicalUri(requestConfig.bucketName, requestConfig.objectKey)
  /\ requestUri' = BuildRequestUri(requestConfig.objectKey)
  /\ pc' = "uriDone"
  /\ UNCHANGED << configVars, inputVars, headerVars, canonicalQuery,
                  canonicalHeaders, additionalHeaders, canonicalRequest,
                  hashedRequest, signVars, wireVars >>

UriSpec == UriInit /\ [][ApplyCanonicalUri]_vars

(***************************************************************************)
(* Calls of doRequest side by side on one Operation.  A call runs from one *)
(* await to the next without interruption: up to the digest of the         *)
(* canonical request, then up to fetch.                                    *)
(***************************************************************************)

\* allHeaders as lines 103-121 leave it.
AllHeadersOf(config, request, date) ==
  ForceContentLength(
    MergeHeaders(BuildDomainName(request.bucketName, config.endpoint), date,
                 ossDateString(date), request.headers),
    request.method, request.body)

\* canonicalRequest as lines 123-138 build it.
CanonicalRequestOf(config, request, date) ==
  LET signed == SelectHeaders(AllHeadersOf(config, request, date))
  IN  BuildCanonicalRequest(
        request.method,
        BuildCanonicalUri(request.bucketName, request.objectKey),
        BuildCanonicalQueryString(request.query),
        BuildCanonicalHeaders(Some(signed)),
        BuildAdditionalHeaders(signed),
        UNSIGNED_PAYLOAD)

\* keyData after the four links of lines 155-166.
SigningKeyOf(secret, date, region) ==
  DeriveKey(
    DeriveKey(
      DeriveKey(
        DeriveKey(TextEncode(KeyPrefix \o secret), TextEncode(date)),
        TextEncode(region)),
      TextEncode(ServiceName)),
    TextEncode(Terminator))

\* authorization as lines 141-171 build it once the digest is there.
AuthorizationOf(config, dateTime, additional, canonical) ==
  LET date == Substring(dateTime, 0, 8)
      hashed == EncodeHex(Sha256(TextEncode(canonical)))
      sc == BuildScope(date, config.region)
      toSign == BuildStrToSign(dateTime, sc, hashed)
      sig == EncodeHex(Hmac(SigningKeyOf(config.accessKeySecret, date, config.region),
                            TextEncode(toSign)))
  IN  BuildAuthorization(config.accessKeyId, sc, additional, sig)

\* PUT requests that differ in body, in a header that is not signed and in
\* a header that is signed.
ConcurrentHeaders ==
  { Undefined,
    Some(<< << << "C", "a", "c", "h", "e", "-", "C", "o", "n", "t", "r", "o", "l" >>,
               << "n", "o" >> >> >>),
    Some(<< << HContentType, << "t", "/", "x" >> >> >>) }

\* The base headers assigned into the map of the caller.
CallerRequestAfter_CallerAsTarget(config, request, date) ==
  [ request EXCEPT !.headers = Some(AllHeadersOf(config, request, date)) ]

\* The RequestConfig of the caller after doRequest has put allHeaders
\* together: Object.assign writes its first argument, the literal of the
\* base headers, and content-length is assigned to that same new object.
CallerRequestAfter(config, request, date) == request

ConcurrentRequests ==
  [ method : { PUT }, bucketName : { Some(<< "b", "k" >>) },
    objectKey : { Some(<< "a", "/", "b", " ", "c" >>) },
    headers : ConcurrentHeaders, query : { Undefined }, body : Bodies ]

ConcurrentInit ==
  /\ pc = "calls"
  /\ requestConfig = IdleRequest
  /\ headersToSign = << >>
  /\ canonicalUri = NoText /\ requestUri = NoText
  /\ canonicalQuery = NoText /\ canonicalHeaders = NoText
  /\ RestIdle
  /\ OuterIdle

callsFrame ==
  << pc, clientConfig, inputVars, headerVars, canonVars, signVars, wireVars,
     facade, listing, transfer, client, clock >>

\* doRequest is entered and runs to `await crypto.subtle.digest`.
BeginCall ==
  \E i \in 1..MaxCalls, r \in ConcurrentRequests, t \in Instants :
    /\ calls[i].phase = "idle"
    /\ calls' =
         [ calls EXCEPT ![i] =
             [ phase |-> "digest", request |-> CallerRequestAfter(clientConfig, r, t),
               given |-> r, d |-> t,
               dateTimeString |-> ossDateString(t),
               additionalHeaders |->
                 BuildAdditionalHeaders(SelectHeaders(AllHeadersOf(clientConfig, r, t))),
               canonicalRequest |-> CanonicalRequestOf(clientConfig, r, t),
               authorization |-> NoText ] ]
    /\ UNCHANGED callsFrame

\* The digest is there: the call runs on to `await fetch`.
ResumeCall ==
  \E i \in 1..MaxCalls :
    /\ calls[i].phase = "digest"
    /\ calls' =
         [ calls EXCEPT
             ![i].phase = "fetch",
             ![i].authorization =
               AuthorizationOf(clientConfig, calls[i].dateTimeString,
                               calls[i].additionalHeaders, calls[i].canonicalRequest) ]
    /\ UNCHANGED callsFrame

\* The transport has answered and the call is over.
EndCall ==
  \E i \in 1..MaxCalls :
    /\ calls[i].phase = "fetch"
    /\ calls' = [ calls EXCEPT ![i] = IdleCall ]
    /\ UNCHANGED callsFrame

ConcurrentNext == BeginCall \/ ResumeCall \/ EndCall

ConcurrentSpec == ConcurrentInit /\ [][ConcurrentNext]_vars

(***************************************************************************)
(* The facades that go through doRequest: BucketOperation.getBucketInfo    *)
(* and listObjects, ObjectOperation.createFolder, putStream, headObject,   *)
(* getObjectMeta and deleteObject, up to the ResponseResult or the error   *)
(* that doRequest hands back.                                              *)
(***************************************************************************)

\* helper.ts isBlank.
isBlank(s) == ~s.def \/ Len(Trim(s.v)) = 0

\* helper.ts camelToKebab.
RECURSIVE camelToKebab(_)
camelToKebab(k) ==
  IF k = << >> THEN << >>
  ELSE (IF Head(k) \in UpperLetters THEN << "-", LowerChar(Head(k)) >>
        ELSE << Head(k) >>) \o camelToKebab(Tail(k))

\* new ClientError(message)
ValidationError(message) ==
  ClientError(Some(message), Undefined, Undefined, Undefined, Undefined,
              Undefined, Undefined, Undefined)

InvalidFolder ==
  << "i", "n", "v", "a", "l", "i", "d", " ", "b", "u", "c", "k", "e", "t",
     " ", "n", "a", "m", "e", " ", "o", "r", " ", "f", "o", "l", "d",
     "e", "r", " ", "p", "a", "t", "h", " ", "t", "o", " ", "c", "r",
     "e", "a", "t", "e", " ", "a", " ", "n", "e", "w", " ", "f", "o",
     "l", "d", "e", "r" >>

InvalidPutObject ==
  << "i", "n", "v", "a", "l", "i", "d", " ", "b", "u", "c", "k", "e", "t",
     " ", "n", "a", "m", "e", " ", "o", "r", " ", "f", "o", "l", "d",
     "e", "r", " ", "p", "a", "t", "h", " ", "t", "o", " ", "p", "u",
     "t", " ", "o", "b", "j", "e", "c", "t" >>

BucketAndKeyRequired ==
  << "b", "u", "c", "k", "e", "t", "N", "a", "m", "e", " ", "a", "n", "d",
     " ", "o", "b", "j", "e", "c", "t", "K", "e", "y", " ", "a", "r",
     "e", " ", "r", "e", "q", "u", "i", "r", "e", "d", ",", " ", "c",
     "a", "n", " ", "n", "o", "t", " ", "b", "e", " ", "e", "m", "p",
     "t", "y" >>

QBucketInfo == << "b", "u", "c", "k", "e", "t", "I", "n", "f", "o" >>
QListType == << "l", "i", "s", "t", "-", "t", "y", "p", "e" >>
QObjectMeta == << "o", "b", "j", "e", "c", "t", "M", "e", "t", "a" >>

\* What a facade does up to its call of doRequest: it throws, or it calls
\* doRequest with a RequestConfig.
Requests(r) == [ kind |-> "request", request |-> r ]

getBucketInfo(bucketName) ==
  Requests([ method |-> GET, bucketName |-> bucketName, objectKey |-> Undefined,
             headers |-> Undefined,
             query |-> Some(<< << QBucketInfo, NullValue >> >>),
             body |-> Undefined ])

\* listObjects without a query.
listObjects(bucketName) ==
  Requests([ method |-> GET, bucketName |-> bucketName, objectKey |-> Undefined,
             headers |-> Undefined,
             query |-> Some(<< << QListType, NumberValue(2) >> >>),
             body |-> Undefined ])

createFolder(bucketName, folderPath) ==
  IF isBlank(bucketName) \/ isBlank(folderPath)
    THEN Thrown(ValidationError(InvalidFolder))
    ELSE LET stripped == IF StartsWith(folderPath.v, << "/" >>)
                           THEN Tail(folderPath.v) ELSE folderPath.v
             objectKey == IF stripped # << >> /\ stripped[Len(stripped)] = "/"
                            THEN stripped ELSE stripped \o << "/" >>
         IN  Requests([ method |-> PUT, bucketName |-> bucketName,
                        objectKey |-> Some(objectKey), headers |-> Undefined,
                        query |-> Undefined, body |-> Undefined ])

\* putStream without options.
putStream(bucketName, objectKey) ==
  IF isBlank(bucketName) \/ isBlank(objectKey)
    THEN Thrown(ValidationError(InvalidPutObject))
    ELSE LET sanitizedObjectKey == IF StartsWith(objectKey.v, << "/" >>)
                                     THEN Tail(objectKey.v) ELSE objectKey.v
         IN  Requests([ method |-> PUT, bucketName |-> bucketName,
                        objectKey |-> Some(sanitizedObjectKey),
                        headers |-> Some(<< >>), query |-> Undefined,
                        body |-> Some("stream") ])

headObject(bucketName, objectKey, options) ==
  IF isBlank(bucketName) \/ isBlank(objectKey)
    THEN Thrown(ValidationError(BucketAndKeyRequired))
    ELSE LET given == IF options.def THEN options.v ELSE << >>
             headers == AssignEntries(<< >>,
                          [ i \in 1..Len(given) |->
                              << camelToKebab(given[i][1]), given[i][2] >> ])
         IN  Requests([ method |-> HEAD, bucketName |-> bucketName,
                        objectKey |-> objectKey, headers |-> Some(headers),
                        query |-> Undefined, body |-> Undefined ])

\* getObjectMeta without options.
getObjectMeta(bucketName, objectKey) ==
  IF isBlank(bucketName) \/ isBlank(objectKey)
    THEN Thrown(ValidationError(BucketAndKeyRequired))
    ELSE Requests([ method |-> HEAD, bucketName |-> bucketName,
                    objectKey |-> objectKey, headers |-> Undefined,
                    query |-> Some(<< << QObjectMeta, NullValue >> >>),
                    body |-> Undefined ])

\* deleteObject without options.
deleteObject(bucketName, objectKey) ==
  IF isBlank(bucketName) \/ isBlank(objectKey)
    THEN Thrown(ValidationError(BucketAndKeyRequired))
    ELSE Requests([ method |-> DELETE, bucketName |-> bucketName,
                    objectKey |-> objectKey, headers |-> Undefined,
                    query |-> Some(<< >>), body |-> Undefined ])

BucketFacades == { "getBucketInfo", "listObjects" }
ObjectFacades ==
  { "createFolder", "putStream", "headObject", "getObjectMeta", "deleteObject" }

Facades == BucketFacades \cup ObjectFacades

FacadeEntry(name, bucketName, objectKey, options) ==
  CASE name = "getBucketInfo" -> getBucketInfo(bucketName)
    [] name = "listObjects" -> listObjects(bucketName)
    [] name = "createFolder" -> createFolder(bucketName, objectKey)
    [] name = "putStream" -> putStream(bucketName, objectKey)
    [] name = "headObject" -> headObject(bucketName, objectKey, options)
    [] name = "getObjectMeta" -> getObjectMeta(bucketName, objectKey)
    [] name = "deleteObject" -> deleteObject(bucketName, objectKey)

\* What the facade makes of what doRequest hands back: an error passes
\* through (no facade catches), headObject returns the headers, createFolder
\* and deleteObject return nothing, and the others go on to build their
\* result from the ResponseResult.
FacadeResult(name, handed) ==
  IF handed.kind # "return" THEN handed
  ELSE IF name = "headObject" THEN [ kind |-> "return", value |-> handed.headers ]
  ELSE IF name \in { "createFolder", "deleteObject" }
    THEN [ kind |-> "return", value |-> << >> ]
  ELSE [ kind |-> "result", from |-> handed ]

\* Arguments: absent, empty, blank and a name; keys written with a leading
\* separator, with nothing but the separator, and with two of them.
FacadeBuckets == { Undefined, Some(<< >>), Some(<< " " >>), Some(<< "b", "k" >>) }
FacadeKeys ==
  { Undefined, Some(<< " ", "\t" >>), Some(<< "/", "a", "/", "b" >>), Some(<< "/" >>),
    Some(<< "/", "/", "a" >>) }

OIfNoneMatch == << "i", "f", "N", "o", "n", "e", "M", "a", "t", "c", "h" >>
OIfUnmodifiedSince ==
  << "i", "f", "U", "n", "m", "o", "d", "i", "f", "i", "e", "d", "S", "i",
     "n", "c", "e" >>

HeadObjectOptions ==
  { Undefined,
    Some(<< << OIfNoneMatch, << "e" >> >> >>),
    Some(<< << OIfUnmodifiedSince, << "t" >> >> >>) }

\* What the server answers to the requests of the facades.
FacadeResponses ==
  { Response(200, EmptyBody), Response(304, EmptyBody), Response(412, EmptyBody),
    Response(404, Envelope), Response(503, EmptyBody), TransportFailure }

FacadeInit ==
  /\ pc = "idle"
  /\ requestConfig = IdleRequest
  /\ headersToSign = << >>
  /\ canonicalUri = NoText /\ requestUri = NoText
  /\ canonicalQuery = NoText /\ canonicalHeaders = NoText
  /\ RestIdle
  /\ OuterIdle

\* A caller invokes an operation of a facade.
FacadeInvoke ==
  /\ pc = "idle"
  /\ facade.phase = "none"
  /\ \E name \in Facades, b \in FacadeBuckets,
        k \in FacadeKeys, o \in HeadObjectOptions :
       /\ name \in BucketFacades => k = Undefined
       /\ name # "headObject" => o = Undefined
       /\ LET entry == FacadeEntry(name, b, k, o)
              invoked == [ name |-> name, bucketName |-> b, objectKey |-> k,
                           options |-> o, phase |-> "running", result |-> NoOutcome ]
          IN  IF entry.kind = "request"
                THEN /\ facade' = invoked
                     /\ requestConfig' = entry.request
                     /\ ClearLocals
                     /\ pc' = "headers"
                     /\ UNCHANGED << clientConfig, d, facadeRest >>
                ELSE /\ facade' = [ invoked EXCEPT !.phase = "settled", !.result = entry ]
                     /\ UNCHANGED << pc, clientConfig, inputVars, headerVars, canonVars,
                                     signVars, wireVars, facadeRest >>

FacadeFetch == FetchFrom(FacadeResponses)

\* doRequest has returned or thrown: the facade settles.
FacadeComplete ==
  /\ pc = "done"
  /\ facade.phase = "running"
  /\ facade' = [ facade EXCEPT !.phase = "settled",
                               !.result = FacadeResult(facade.name, outcome) ]
  /\ pc' = "complete"
  /\ UNCHANGED << clientConfig, inputVars, headerVars, canonVars, signVars,
                  wireVars, facadeRest >>

\* The caller has the result; the next operation can be invoked.
FacadeDismiss ==
  /\ facade.phase = "settled"
  /\ facade' = NoFacade
  /\ pc' = "idle"
  /\ requestConfig' = IdleRequest
  /\ ClearLocals
  /\ UNCHANGED << clientConfig, d, facadeRest >>

FacadeNext ==
  \/ FacadeInvoke
  \/ BuildAllHeaders
  \/ SelectHeadersToSign
  \/ Canonicalize
  \/ HashCanonicalRequest
  \/ BuildStringToSign
  \/ EncodeSecret
  \/ DeriveDateKey
  \/ DeriveRegionKey
  \/ DeriveServiceKey
  \/ DeriveSigningKey
  \/ Sign
  \/ Authorize
  \/ BuildUrl
  \/ FacadeFetch
  \/ HandleResponse
  \/ FacadeComplete
  \/ FacadeDismiss

FacadeSpec == FacadeInit /\ [][FacadeNext]_vars

(***************************************************************************)
(* BucketOperation.listAllBuckets: the loop over the pages of #listBuckets *)
(***************************************************************************)

QMarker == << "m", "a", "r", "k", "e", "r" >>

\* The most pages a server serves.
MaxPages == 2

Marker1 == << "m", "1" >>
Marker2 == << "m", "2" >>

\* The names of the buckets of one page, in the order of the document.
PageBuckets == { << >>, << << "a" >> >>, << << "b" >>, << "a" >> >> }

\* A page of the listing as the server sends it.
Page(buckets, isTruncated, nextMarker) ==
  [ buckets |-> buckets, isTruncated |-> isTruncated, nextMarker |-> nextMarker ]

\* listAllBuckets goes on after this page.
Continues(page) ==
  page.isTruncated.def /\ page.isTruncated.v /\ Truthy(page.nextMarker)

MorePages ==
  { Page(b, Some(TRUE), Some(m)) : b \in PageBuckets, m \in { Marker1, Marker2 } }

LastPages ==
  { Page(b, t, m) : b \in PageBuckets,
                    t \in { Some(FALSE), Some(TRUE), Undefined },
                    m \in { Undefined } }
    \cup { Page(b, Some(FALSE), Some(Marker1)) : b \in PageBuckets }

\* A server serving n pages: n - 1 pages that announce a next one, then one
\* that does not.
Servers ==
  UNION { { s \in [ 1..n -> MorePages \cup LastPages ] :
              /\ \A i \in 1..(n - 1) : Continues(s[i])
              /\ ~Continues(s[n]) } : n \in 1..MaxPages }

\* The document that parseXml makes of a page: Buckets.Bucket is an array
\* for several buckets, the one object for a single bucket, and absent
\* without buckets.
PageBody(page) ==
  [ kind |-> "xml", Error |-> Undefined,
    ListAllMyBucketsResult |->
      [ IsTruncated |-> page.isTruncated,
        NextMarker |-> page.nextMarker,
        Bucket |-> IF Len(page.buckets) = 0 THEN Undefined
                   ELSE IF Len(page.buckets) = 1
                     THEN Some([ isArray |-> FALSE, node |-> page.buckets[1] ])
                   ELSE Some([ isArray |-> TRUE, nodes |-> page.buckets ]) ] ]

TypeError == [ kind |-> "throw-type" ]

\* #parseListBucketsResponseContent: the ListBucketsResult, or the TypeError
\* of taking the properties of a bucket node that is not there.
ParseListBucketsResponseContent(content) ==
  LET resultDoc == content.ListAllMyBucketsResult
      bucketsDoc == IF resultDoc.Bucket.def /\ resultDoc.Bucket.v.isArray
                      THEN resultDoc.Bucket.v.nodes
                      ELSE << resultDoc.Bucket >>
  IN  IF ~resultDoc.Bucket.def THEN TypeError
      ELSE [ kind |-> "result",
             buckets |->
               IF resultDoc.Bucket.v.isArray
                 THEN [ i \in 1..Len(bucketsDoc) |-> [ name |-> bucketsDoc[i] ] ]
                 ELSE << [ name |-> resultDoc.Bucket.v.node ] >>,
             isTruncated |-> resultDoc.IsTruncated,
             nextMarker |-> IF Truthy(resultDoc.NextMarker)
                              THEN resultDoc.NextMarker ELSE Undefined ]

\* #listBuckets(q) up to its call of doRequest, q holding at most a marker.
ListBucketsRequest(marker) ==
  [ method |-> GET, bucketName |-> Undefined, objectKey |-> Undefined,
    headers |-> Some(<< >>),
    query |-> Some(IF Truthy(marker)
                     THEN << << QMarker, StringValue(marker.v) >> >>
                     ELSE << >>),
    body |-> Undefined ]

ListInit ==
  /\ pc = "idle"
  /\ requestConfig = IdleRequest
  /\ headersToSign = << >>
  /\ canonicalUri = NoText /\ requestUri = NoText
  /\ canonicalQuery = NoText /\ canonicalHeaders = NoText
  /\ RestIdle
  /\ OuterIdle

\* listAllBuckets() up to the first await, against some server.
ListInvoke ==
  /\ pc = "idle"
  /\ listing.phase = "none"
  /\ \E server \in Servers :
       listing' = [ NoListing EXCEPT !.phase = "await", !.server = server ]
  /\ requestConfig' = ListBucketsRequest(Undefined)
  /\ ClearLocals
  /\ pc' = "headers"
  /\ UNCHANGED << clientConfig, d, listingRest >>

\* The server answers the k-th request with its k-th page, or the transport
\* fails.
ListFetch ==
  /\ listing.phase = "await"
  /\ Len(fetched) < Len(listing.server)
  /\ FetchFrom({ Response(200, PageBody(listing.server[Len(fetched) + 1])),
                 TransportFailure })

\* #listBuckets has its answer: the loop pushes the buckets of the page and
\* goes on with the next marker, or ends.
ListResume ==
  /\ pc = "done"
  /\ listing.phase = "await"
  /\ LET result == IF outcome.kind = "return"
                     THEN ParseListBucketsResponseContent(outcome.content)
                     ELSE outcome
     IN  IF result.kind # "result"
           THEN /\ listing' = [ listing EXCEPT !.phase = "settled", !.result = result ]
                /\ pc' = "complete"
                /\ UNCHANGED << inputVars, headerVars, canonVars, signVars, wireVars >>
           ELSE LET allBuckets == listing.allBuckets \o result.buckets
                    pushed == [ listing EXCEPT !.allBuckets = allBuckets,
                                               !.results = Append(@, result) ]
                IN  IF result.isTruncated.def /\ result.isTruncated.v
                         /\ Truthy(result.nextMarker)
                      THEN /\ listing' = [ pushed EXCEPT !.marker = result.nextMarker ]
                           /\ requestConfig' = ListBucketsRequest(result.nextMarker)
                           /\ pc' = "headers"
                           /\ UNCHANGED << d, headerVars, canonVars, signVars, wireVars >>
                      ELSE /\ listing' =
                                [ pushed EXCEPT !.phase = "settled",
                                    !.result = [ kind |-> "return", value |-> allBuckets ] ]
                           /\ pc' = "complete"
                           /\ UNCHANGED << inputVars, headerVars, canonVars, signVars,
                                           wireVars >>
  /\ UNCHANGED << clientConfig, listingRest >>

\* The caller has the buckets or the error.
ListDismiss ==
  /\ listing.phase = "settled"
  /\ listing' = NoListing
  /\ pc' = "idle"
  /\ requestConfig' = IdleRequest
  /\ ClearLocals
  /\ UNCHANGED << clientConfig, d, listingRest >>

ListNext ==
  \/ ListInvoke
  \/ BuildAllHeaders
  \/ SelectHeadersToSign
  \/ Canonicalize
  \/ HashCanonicalRequest
  \/ BuildStringToSign
  \/ EncodeSecret
  \/ DeriveDateKey
  \/ DeriveRegionKey
  \/ DeriveServiceKey
  \/ DeriveSigningKey
  \/ Sign
  \/ Authorize
  \/ BuildUrl
  \/ ListFetch
  \/ HandleResponse
  \/ ListResume
  \/ ListDismiss

ListSpec == ListInit /\ [][ListNext]_vars

(***************************************************************************)
(* ObjectOperation.putObject and getObject: the local file of an upload    *)
(* and of a download                                                       *)
(***************************************************************************)

FilePathEmpty == << "f", "i", "l", "e", "P", "a", "t", "h", " ", "m", "u", "s", "t", " ",
   "N", "O", "T", " ", "b", "e", " ", "e", "m", "t", "p", "y" >>
NullBody == << "n", "u", "l", "l", " ", "r", "e", "s", "p", "n", "o", "s", "e", " ",
   "b", "o", "d", "y" >>
StatusNotOk == << "S", "t", "a", "t", "u", "s", " ", "c", "o", "d", "e", " ", "i", "s",
   " ", "n", "o", "t", " ", "O", "K", " " >>

\* What filePath names: nothing (a blank path), no file, a file that may
\* not be read, a directory, a file of length 0, a file with content.
FilePaths == { "blank", "missing", "denied", "directory", "empty", "regular" }

\* What localFilepath names: a path that can be created or one that cannot.
LocalFilepaths == { "writable", "denied" }

\* An error of the runtime or of the file system, by name.
RuntimeError(name) == [ kind |-> "throw-runtime", name |-> name ]

\* The catch of putObject: NotFound and PermissionDenied become ClientErrors
\* that only carry a message, everything else is thrown on.
CatchPutObject(result) ==
  IF result.kind = "throw-runtime" /\ result.name \in { "NotFound", "PermissionDenied" }
    THEN Thrown(ValidationError(<< result.name >>))
    ELSE result

\* file.close(): BadResource when the stream has closed the file already.
Close(handle) ==
  [ handle |-> IF handle = "none" THEN "none" ELSE "closed",
    raised |-> handle = "closed" ]

\* The finally of putObject with its result: the close and the error of the
\* close thrown on.
FinallyClose_Rethrowing(t, result) ==
  LET closed == Close(t.handle)
  IN  [ t EXCEPT !.step = "settled", !.handle = closed.handle,
                 !.closeRaised = closed.raised,
                 !.result = IF closed.raised THEN RuntimeError("BadResource")
                            ELSE CatchPutObject(result) ]

\* The catch and the finally of putObject with the result of its try block:
\* file?.close() inside a try whose catch is empty.
FinallyClose(t, result) ==
  LET closed == Close(t.handle)
  IN  [ t EXCEPT !.step = "settled", !.handle = closed.handle,
                 !.closeRaised = closed.raised,
                 !.result = CatchPutObject(result) ]

\* putObject(bucketName, objectKey, filePath) up to Deno.open.
PutObjectInvoke ==
  /\ pc = "idle"
  /\ transfer.op = "none"
  /\ \E b \in FacadeBuckets, k \in FacadeKeys, path \in FilePaths :
       LET invoked == [ NoTransfer EXCEPT !.op = "putObject", !.bucketName = b,
                                          !.objectKey = k, !.path = path ]
       IN  transfer' =
             IF path = "blank"
               THEN [ invoked EXCEPT !.step = "settled",
                                     !.result = Thrown(ValidationError(FilePathEmpty)) ]
               ELSE [ invoked EXCEPT !.step = "open" ]
  /\ UNCHANGED << pc, clientConfig, inputVars, headerVars, canonVars, signVars,
                  wireVars, transferRest >>

\* await Deno.open(filePath)
PutObjectOpen ==
  /\ transfer.op = "putObject" /\ transfer.step = "open"
  /\ transfer' =
       IF transfer.path = "missing"
         THEN FinallyClose(transfer, RuntimeError("NotFound"))
       ELSE IF transfer.path = "denied"
         THEN FinallyClose(transfer, RuntimeError("PermissionDenied"))
       ELSE [ transfer EXCEPT !.handle = "open", !.step = "stat" ]
  /\ UNCHANGED << pc, clientConfig, inputVars, headerVars, canonVars, signVars,
                  wireVars, transferRest >>

\* await file.stat() and the two tests of what it reports.
PutObjectStat ==
  /\ transfer.op = "putObject" /\ transfer.step = "stat"
  /\ transfer' =
       IF transfer.path \in { "directory", "empty" }
         THEN FinallyClose(transfer, Thrown(ValidationError(<< transfer.path >>)))
         ELSE [ transfer EXCEPT !.step = "digest" ]
  /\ UNCHANGED << pc, clientConfig, inputVars, headerVars, canonVars, signVars,
                  wireVars, transferRest >>

\* await crypto.subtle.digest("MD5", s1): the file is read to its end, after
\* which its readable stream has closed it, or the read fails, after which
\* the stream may or may not have closed it.
PutObjectDigest ==
  /\ transfer.op = "putObject" /\ transfer.step = "digest"
  /\ \/ transfer' = [ transfer EXCEPT !.handle = "closed", !.step = "putStream" ]
     \/ \E handle \in { "open", "closed" } :
          transfer' = FinallyClose([ transfer EXCEPT !.handle = handle ],
                                   RuntimeError("Interrupted"))
  /\ UNCHANGED << pc, clientConfig, inputVars, headerVars, canonVars, signVars,
                  wireVars, transferRest >>

\* this.putStream(bucketName, objectKey, s0, opt) up to its doRequest.
PutObjectPutStream ==
  /\ pc = "idle"
  /\ transfer.op = "putObject" /\ transfer.step = "putStream"
  /\ LET entry == putStream(transfer.bucketName, transfer.objectKey)
     IN  IF entry.kind = "request"
           THEN /\ transfer' = [ transfer EXCEPT !.step = "await" ]
                /\ requestConfig' = entry.request
                /\ ClearLocals
                /\ pc' = "headers"
                /\ UNCHANGED << clientConfig, d, transferRest >>
           ELSE /\ transfer' = FinallyClose(transfer, entry)
                /\ UNCHANGED << pc, clientConfig, inputVars, headerVars, canonVars,
                                signVars, wireVars, transferRest >>

\* What the server answers to an upload or a download: as to the other
\* operations, or 200 with the content of the object.
TransferResponses == FacadeResponses \cup { Response(200, PlainDocument) }

TransferFetch ==
  /\ transfer.step \in { "await", "send" }
  /\ FetchFrom(TransferResponses)

PutObjectHandleResponse ==
  /\ transfer.op = "putObject"
  /\ HandleResponse

\* putStream has returned or thrown: putObject returns or throws the same
\* through its finally.
PutObjectComplete ==
  /\ pc = "done"
  /\ transfer.op = "putObject" /\ transfer.step = "await"
  /\ transfer' =
       FinallyClose(transfer,
                    IF outcome.kind = "return"
                      THEN [ kind |-> "return", value |-> outcome.headers ]
                      ELSE outcome)
  /\ pc' = "complete"
  /\ UNCHANGED << clientConfig, inputVars, headerVars, canonVars, signVars,
                  wireVars, transferRest >>

\* getObject(bucketName, objectKey, localFilepath) up to sendRequest.
GetObjectInvoke ==
  /\ pc = "idle"
  /\ transfer.op = "none"
  /\ \E b \in FacadeBuckets, k \in FacadeKeys, path \in LocalFilepaths :
       LET invoked == [ NoTransfer EXCEPT !.op = "getObject", !.bucketName = b,
                                          !.objectKey = k, !.path = path ]
       IN  IF isBlank(b) \/ isBlank(k)
             THEN /\ transfer' =
                       [ invoked EXCEPT !.step = "settled",
                           !.result = Thrown(ValidationError(BucketAndKeyRequired)) ]
                  /\ UNCHANGED << pc, clientConfig, inputVars, headerVars, canonVars,
                                  signVars, wireVars, transferRest >>
             ELSE /\ transfer' = [ invoked EXCEPT !.step = "send" ]
                  /\ requestConfig' =
                       [ method |-> GET, bucketName |-> b, objectKey |-> k,
                         headers |-> Some(<< >>), query |-> Undefined,
                         body |-> Undefined ]
                  /\ ClearLocals
                  /\ pc' = "headers"
                  /\ UNCHANGED << clientConfig, d, transferRest >>

\* Operation.sendRequest after its fetch: the response itself, after the
\* classification of doRequest.
sendRequest(r) ==
  LET classified == Classify(r)
  IN  IF classified.kind = "return" THEN [ kind |-> "response", response |-> r ]
      ELSE classified

\* The body released whether there is one or not.
GetObjectChecks_NoBodyTest(sent, r) ==
  IF sent.kind # "response" THEN sent
  ELSE IF r.status # 200
    THEN IF r.body.kind = "empty"
           THEN Thrown(ClientError(Some(StatusNotOk \o NumberToString(r.status)),
                                   Undefined, Undefined, Undefined, Undefined,
                                   Undefined, Undefined, Some(r.status)))
           ELSE Thrown(FromResponseContent(r.body))
  ELSE NoOutcome

\* What getObject throws before it touches the file: what sendRequest threw,
\* the error of a status other than 200 (from the text of the body, or with
\* the status when there is no text), the error of a null body; or nothing.
GetObjectChecks(sent, r) ==
  IF sent.kind # "response" THEN sent
  ELSE IF r.status # 200
    THEN IF r.body.kind = "empty"
           THEN Thrown(ClientError(Some(StatusNotOk \o NumberToString(r.status)),
                                   Undefined, Undefined, Undefined, Undefined,
                                   Undefined, Undefined, Some(r.status)))
           ELSE Thrown(FromResponseContent(r.body))
  ELSE IF r.body.kind = "empty"
    THEN Thrown(ValidationError(NullBody))
  ELSE NoOutcome

\* sendRequest hands over the response or throws; getObject then throws
\* unless the status is 200 and there is a body.
GetObjectStatus ==
  /\ pc = "status"
  /\ transfer.op = "getObject" /\ transfer.step = "send"
  /\ LET sent == sendRequest(response)
         failed == GetObjectChecks(sent, response)
     IN  /\ outcome' = sent
         /\ transfer' = IF failed = NoOutcome
                          THEN [ transfer EXCEPT !.step = "create" ]
                          ELSE [ transfer EXCEPT !.step = "settled", !.result = failed ]
  /\ pc' = "complete"
  /\ UNCHANGED << clientConfig, inputVars, headerVars, canonVars, signVars,
                  fullUrl, fetched, response, transferRest >>

\* await Deno.create(localFilepath)
GetObjectCreate ==
  /\ transfer.op = "getObject" /\ transfer.step = "create"
  /\ transfer' =
       IF transfer.path = "writable"
         THEN [ transfer EXCEPT !.handle = "open", !.step = "pipe" ]
         ELSE [ transfer EXCEPT !.step = "settled",
                                !.result = RuntimeError("PermissionDenied") ]
  /\ UNCHANGED << pc, clientConfig, inputVars, headerVars, canonVars, signVars,
                  wireVars, transferRest >>

\* How pipeTo settles: the body was written out, or it broke off.
PipeResults ==
  { [ kind |-> "return", value |-> << >> ], RuntimeError("Interrupted") }

\* await response.body.pipeTo(file.writable): the pipe closes the writable
\* stream of the file when the body ends and aborts it when the body or a
\* write fails, and the stream closes the file in both cases.
GetObjectPipe ==
  /\ transfer.op = "getObject" /\ transfer.step = "pipe"
  /\ \E result \in PipeResults :
       transfer' = [ transfer EXCEPT !.handle = "closed", !.step = "settled",
                                     !.result = result ]
  /\ UNCHANGED << pc, clientConfig, inputVars, headerVars, canonVars, signVars,
                  wireVars, transferRest >>

\* The caller has the result or the error.
TransferDismiss ==
  /\ transfer.step = "settled"
  /\ transfer' = NoTransfer
  /\ pc' = "idle"
  /\ requestConfig' = IdleRequest
  /\ ClearLocals
  /\ UNCHANGED << clientConfig, d, transferRest >>

TransferInit ==
  /\ pc = "idle"
  /\ requestConfig = IdleRequest
  /\ headersToSign = << >>
  /\ canonicalUri = NoText /\ requestUri = NoText
  /\ canonicalQuery = NoText /\ canonicalHeaders = NoText
  /\ RestIdle
  /\ OuterIdle

TransferNext ==
  \/ PutObjectInvoke
  \/ PutObjectOpen
  \/ PutObjectStat
  \/ PutObjectDigest
  \/ PutObjectPutStream
  \/ GetObjectInvoke
  \/ BuildAllHeaders
  \/ SelectHeadersToSign
  \/ Canonicalize
  \/ HashCanonicalRequest
  \/ BuildStringToSign
  \/ EncodeSecret
  \/ DeriveDateKey
  \/ DeriveRegionKey
  \/ DeriveServiceKey
  \/ DeriveSigningKey
  \/ Sign
  \/ Authorize
  \/ BuildUrl
  \/ TransferFetch
  \/ PutObjectHandleResponse
  \/ PutObjectComplete
  \/ GetObjectStatus
  \/ GetObjectCreate
  \/ GetObjectPipe
  \/ TransferDismiss

TransferSpec == TransferInit /\ [][TransferNext]_vars

(***************************************************************************)
(* OssClient: the constructor and the ClientConfig of its operations       *)
(***************************************************************************)

\* ClientOptions: each property given or left out.
Options(secure, cname, timeoutMs) ==
  [ secure |-> secure, cname |-> cname, timeoutMs |-> timeoutMs ]

\* OssClient.#defaultOptions
DefaultOptions == Options(Some(TRUE), Some(FALSE), Undefined)

\* Object.assign({}, this.#defaultOptions, options) on ClientOptions.
AssignOptions(defaults, options) ==
  IF ~options.def THEN defaults
  ELSE [ p \in DOMAIN defaults |->
           IF options.v[p].def THEN options.v[p] ELSE defaults[p] ]

\* new OssClient(region, endpoint, accessKeyId, accessKeySecret, options):
\* #options and the ClientConfig handed to the bucket and object operations.
OssClient(region, endpoint, accessKeyId, accessKeySecret, options) ==
  [ given |-> options,
    options |-> Some(AssignOptions(DefaultOptions, options)),
    clientConfig |->
      [ region |-> region, endpoint |-> endpoint,
        accessKeyId |-> accessKeyId, accessKeySecret |-> accessKeySecret,
        secure |-> DefaultOptions.secure.v,
        cname |-> DefaultOptions.cname.v,
        timeoutMs |-> DefaultOptions.timeoutMs ] ]

\* The most milliseconds of a timeout.
MaxTimeoutMs == 2

\* The options a caller constructs the client with.
ClientOptions ==
  { Undefined }
    \cup { Some(Options(s, c, t)) :
             s \in { Undefined, Some(TRUE), Some(FALSE) },
             c \in { Undefined, Some(TRUE) },
             t \in { Undefined } \cup { Some(n) : n \in 1..MaxTimeoutMs } }

ClientInit ==
  /\ pc = "idle"
  /\ \E options \in ClientOptions :
       LET constructed == OssClient(<< "c", "n" >>,
                                    << "o", "s", "s", ".", "i", "o" >>,
                                    << "i", "d" >>, << "k", "e", "y" >>, options)
       IN  /\ client = [ given |-> constructed.given, options |-> constructed.options ]
           /\ clientConfig = constructed.clientConfig
  /\ requestConfig = IdleRequest
  /\ d \in { t \in Instants : t.year = 2024 }
  /\ domainName = NoText /\ dateTimeString = NoText /\ dateString = NoText
  /\ allHeaders = << >> /\ headersToSign = << >>
  /\ canonicalUri = NoText /\ requestUri = NoText /\ canonicalQuery = NoText
  /\ canonicalHeaders = NoText /\ additionalHeaders = NoText
  /\ canonicalRequest = NoText /\ hashedRequest = NoText
  /\ scope = NoText /\ strToSign = NoText
  /\ keyData = "" /\ msgData = "" /\ signature = NoText
  /\ authorization = NoText
  /\ fullUrl = NoText /\ fetched = << >>
  /\ response = NoResponse /\ outcome = NoOutcome
  /\ calls = NoCalls /\ facade = NoFacade /\ listing = NoListing
  /\ transfer = NoTransfer /\ clock = NoClock

\* An operation of the client calls doRequest.
ClientCall ==
  /\ pc = "idle"
  /\ requestConfig' \in ConcurrentRequests
  /\ ClearLocals
  /\ pc' = "headers"
  /\ UNCHANGED << configVars, d >>

ClientNext ==
  \/ ClientCall
  \/ BuildAllHeaders
  \/ SelectHeadersToSign
  \/ Canonicalize
  \/ HashCanonicalRequest
  \/ BuildStringToSign
  \/ EncodeSecret
  \/ DeriveDateKey
  \/ DeriveRegionKey
  \/ DeriveServiceKey
  \/ DeriveSigningKey
  \/ Sign
  \/ Authorize
  \/ BuildUrl
  \/ FacadeFetch
  \/ HandleResponse
  \/ Return

ClientSpec == ClientInit /\ [][ClientNext]_vars

(***************************************************************************)
(* doRequest with a timeout configured: the wait for the transport         *)
(***************************************************************************)

\* The configurations of an Operation with and without timeoutMs.
TimedConfigs ==
  { [ c EXCEPT !.timeoutMs = t ] :
      c \in { c \in ClientConfigs : c.secure },
      t \in { Undefined } \cup { Some(n) : n \in 1..MaxTimeoutMs } }

TimeoutInit ==
  /\ pc = "idle"
  /\ clientConfig \in TimedConfigs
  /\ requestConfig = IdleRequest
  /\ d \in { t \in Instants : t.year = 2024 }
  /\ domainName = NoText /\ dateTimeString = NoText /\ dateString = NoText
  /\ allHeaders = << >> /\ headersToSign = << >>
  /\ canonicalUri = NoText /\ requestUri = NoText /\ canonicalQuery = NoText
  /\ canonicalHeaders = NoText /\ additionalHeaders = NoText
  /\ canonicalRequest = NoText /\ hashedRequest = NoText
  /\ scope = NoText /\ strToSign = NoText
  /\ keyData = "" /\ msgData = "" /\ signature = NoText
  /\ authorization = NoText
  /\ fullUrl = NoText /\ fetched = << >>
  /\ response = NoResponse /\ outcome = NoOutcome
  /\ OuterIdle

\* fetch(fullUrl, requestInit) is called: the request is with the transport
\* and doRequest waits for the promise.  requestInit holds the method, the
\* headers, keepalive and the body, and no signal.
SendToTransport ==
  /\ pc = "fetch"
  /\ fetched' = Append(fetched, WireRequest)
  /\ clock' = NoClock
  /\ pc' = "pending"
  /\ UNCHANGED << clientConfig, clockRest, inputVars, headerVars, canonVars,
                  signVars, fullUrl, response, outcome >>

\* A millisecond passes while doRequest waits.
Tick ==
  /\ pc = "pending"
  /\ clock' = [ elapsed |-> IF clock.elapsed < MaxTimeoutMs
                              THEN clock.elapsed + 1 ELSE clock.elapsed,
                beat |-> 1 - clock.beat ]
  /\ UNCHANGED << pc, clientConfig, clockRest, inputVars, headerVars, canonVars,
                  signVars, wireVars >>

\* The transport settles the promise of fetch, whenever it does.
TransportAnswers ==
  /\ pc = "pending"
  /\ response' \in FacadeResponses
  /\ pc' = "status"
  /\ UNCHANGED << configVars, inputVars, headerVars, canonVars, signVars,
                  fullUrl, fetched, outcome >>

\* The steps of doRequest that are the code's own.
OwnSteps ==
  \/ BuildAllHeaders
  \/ SelectHeadersToSign
  \/ Canonicalize
  \/ HashCanonicalRequest
  \/ BuildStringToSign
  \/ EncodeSecret
  \/ DeriveDateKey
  \/ DeriveRegionKey
  \/ DeriveServiceKey
  \/ DeriveSigningKey
  \/ Sign
  \/ Authorize
  \/ BuildUrl
  \/ SendToTransport
  \/ HandleResponse
  \/ Return

TimeoutNext ==
  \/ ClientCall
  \/ OwnSteps
  \/ Tick
  \/ TransportAnswers

\* Where each of the code's own steps takes doRequest.
NextPosition ==
  [ p \in { "headers", "select", "canonicalize", "digest", "scope", "secret",
            "dateKey", "regionKey", "serviceKey", "signingKey", "sign",
            "authorize", "url", "fetch", "status", "done" } |->
      CASE p = "headers" -> "select"
        [] p = "select" -> "canonicalize"
        [] p = "canonicalize" -> "digest"
        [] p = "digest" -> "scope"
        [] p = "scope" -> "secret"
        [] p = "secret" -> "dateKey"
        [] p = "dateKey" -> "regionKey"
        [] p = "regionKey" -> "serviceKey"
        [] p = "serviceKey" -> "signingKey"
        [] p = "signingKey" -> "sign"
        [] p = "sign" -> "authorize"
        [] p = "authorize" -> "url"
        [] p = "url" -> "fetch"
        [] p = "fetch" -> "pending"
        [] p = "status" -> "done"
        [] p = "done" -> "idle" ]

\* doRequest moves on by one of its own steps.
Advance == pc \in DOMAIN NextPosition /\ pc' = NextPosition[pc]

\* The event loop runs every step of the code that can run, and time
\* passes; nothing makes a caller call or the transport answer.
TimeoutSpec ==
  /\ TimeoutInit
  /\ [][TimeoutNext]_vars
  /\ WF_pc(Advance)
  /\ WF_clock(Tick)

(***************************************************************************)
(* ObjectOperation.signatureUrl                                            *)
(***************************************************************************)

SignatureArgumentsRequired ==
  << "m", "e", "t", "h", "o", "d", ",", " ", "b", "u", "c", "k", "e", "t",
     "N", "a", "m", "e", " ", "a", "n", "d", " ", "o", "b", "j", "e",
     "c", "t", "K", "e", "y", " ", "a", "r", "e", " ", "r", "e", "q",
     "u", "i", "r", "e", "d", ",", " ", "c", "a", "n", " ", "n", "o",
     "t", " ", "b", "e", " ", "e", "m", "p", "t", "y" >>

QExpires == << "x", "-", "o", "s", "s", "-", "e", "x", "p", "i", "r", "e", "s" >>
QProcess == << "x", "-", "o", "s", "s", "-", "p", "r", "o", "c", "e", "s", "s" >>
QSignature == << "x", "-", "o", "s", "s", "-", "s", "i", "g", "n", "a", "t", "u", "r",
   "e" >>
OContentType == << "c", "o", "n", "t", "e", "n", "t", "T", "y", "p", "e" >>
OProcess == << "p", "r", "o", "c", "e", "s", "s" >>
OResponse == << "r", "e", "s", "p", "o", "n", "s", "e" >>
OResponseContentType == << "r", "e", "s", "p", "o", "n", "s", "e", "C", "o", "n", "t", "e", "n",
   "t", "T", "y", "p", "e" >>
OResponseExpires == << "r", "e", "s", "p", "o", "n", "s", "e", "E", "x", "p", "i", "r", "e",
   "s" >>
QResponseContentType == << "r", "e", "s", "p", "o", "n", "s", "e", "-", "c", "o", "n", "t", "e",
   "n", "t", "-", "t", "y", "p", "e" >>
QResponseExpires == << "r", "e", "s", "p", "o", "n", "s", "e", "-", "e", "x", "p", "i", "r",
   "e", "s" >>

\* options[name] of the string properties of SignatureOptions.
OptionOf(options, name) ==
  IF HasKey(options.props, name) THEN Some(Get(options.props, name)) ELSE Undefined

\* The entries of a Record<string, string> as entries of a query.
QueryEntries(entries) ==
  [ i \in 1..Len(entries) |-> << entries[i][1], StringValue(entries[i][2]) >> ]

\* headers of signatureUrl.
SignatureHeaders(options) ==
  IF Truthy(OptionOf(options, OContentType))
    THEN << << HContentType, OptionOf(options, OContentType).v >> >>
    ELSE << >>

\* The additional parameters assigned ahead of the parameters of the options.
SignatureQuery_ParametersFirst(options) ==
  LET additional == IF options.additionalParameters.def
                      THEN QueryEntries(options.additionalParameters.v)
                      ELSE << >>
      expires == SetProp(additional, QExpires,
                         StringValue(NumberToString(options.ttlSeconds)))
      processed == IF Truthy(OptionOf(options, OProcess))
                     THEN SetProp(expires, QProcess,
                                  StringValue(OptionOf(options, OProcess).v))
                     ELSE expires
      overrides == SelectSeq(options.props, LAMBDA p : StartsWith(p[1], OResponse))
  IN  AssignEntries(processed,
                    [ i \in 1..Len(overrides) |->
                        << camelToKebab(overrides[i][1]), StringValue(overrides[i][2]) >> ])

\* query of signatureUrl: x-oss-expires, x-oss-process, the response*
\* options under their kebab-case names, the additional parameters last.
SignatureQuery(options) ==
  LET expires == << << QExpires, StringValue(NumberToString(options.ttlSeconds)) >> >>
      processed == IF Truthy(OptionOf(options, OProcess))
                     THEN SetProp(expires, QProcess,
                                  StringValue(OptionOf(options, OProcess).v))
                     ELSE expires
      overrides == SelectSeq(options.props, LAMBDA p : StartsWith(p[1], OResponse))
      overridden == AssignEntries(processed,
                      [ i \in 1..Len(overrides) |->
                          << camelToKebab(overrides[i][1]),
                             StringValue(overrides[i][2]) >> ])
  IN  IF options.additionalParameters.def
        THEN AssignEntries(overridden, QueryEntries(options.additionalParameters.v))
        ELSE overridden

signatureUrl(method, bucketName, objectKey, options) ==
  IF isBlank(method) \/ isBlank(bucketName) \/ isBlank(objectKey)
    THEN Thrown(ValidationError(SignatureArgumentsRequired))
    ELSE Requests([ method |-> method.v, bucketName |-> bucketName,
                    objectKey |-> objectKey,
                    headers |-> Some(SignatureHeaders(options)),
                    query |-> Some(SignatureQuery(options)),
                    body |-> Undefined ])

\* The headers of a pre-signed request that are signed: the signed names of
\* doRequest without host.
PresignedHeaders(headers) ==
  SelectSeq(SelectHeaders(IF headers.def THEN headers.v ELSE << >>),
            LAMBDA h : ToLowerCase(h[1]) # HHost)

\* The signature of a pre-signed URL: the one of doRequest over the
\* canonical request without host.
PresignedSignature(config, request, date) ==
  LET dateTime == ossDateString(date)
      day == Substring(dateTime, 0, 8)
      signed == PresignedHeaders(request.headers)
      canonical == BuildCanonicalRequest(
                     request.method,
                     BuildCanonicalUri(request.bucketName, request.objectKey),
                     BuildCanonicalQueryString(request.query),
                     BuildCanonicalHeaders(Some(signed)),
                     BuildAdditionalHeaders(signed),
                     UNSIGNED_PAYLOAD)
      toSign == BuildStrToSign(dateTime, BuildScope(day, config.region),
                               EncodeHex(Sha256(TextEncode(canonical))))
  IN  EncodeHex(Hmac(SigningKeyOf(config.accessKeySecret, day, config.region),
                     TextEncode(toSign)))

\* Operation.generatePresignedUrl: the URL of the request, the signature
\* after its query.
generatePresignedUrl(config, request, date) ==
  BuildFullUrl(config.secure,
               BuildDomainName(request.bucketName, config.endpoint),
               BuildRequestUri(request.objectKey),
               BuildCanonicalQueryString(request.query) \o << "&" >> \o QSignature
                 \o << "=" >> \o PresignedSignature(config, request, date))

\* ttlSeconds of the options a caller passes.
TtlSeconds == { 60, 3600 }

\* The string properties of the options, in the order the caller wrote them.
OptionProps ==
  { << >>,
    << << OProcess, << >> >> >>,
    << << OProcess, << "p" >> >> >>,
    << << OContentType, << "c" >> >> >>,
    << << OResponseContentType, << "t" >> >> >>,
    << << OResponseExpires, << "0" >> >>, << OProcess, << "p" >> >>,
       << OResponseContentType, << "t" >> >> >> }

\* additionalParameters: absent, empty, a name of its own and the names the
\* operation writes itself.
AdditionalParameters ==
  { Undefined,
    Some(<< >>),
    Some(<< << << "a" >>, << "1" >> >> >>),
    Some(<< << QExpires, << "9" >> >> >>),
    Some(<< << QProcess, << "q" >> >>, << << "a" >>, << "1" >> >> >>),
    Some(<< << QResponseContentType, << "u" >> >> >>) }

SignatureOptions ==
  { [ ttlSeconds |-> t, props |-> p, additionalParameters |-> a ] :
      t \in TtlSeconds, p \in OptionProps, a \in AdditionalParameters }

SignatureMethods == { Undefined, Some(GET), Some(PUT) }

SignatureInit ==
  /\ pc = "idle"
  /\ requestConfig = IdleRequest
  /\ headersToSign = << >>
  /\ canonicalUri = NoText /\ requestUri = NoText
  /\ canonicalQuery = NoText /\ canonicalHeaders = NoText
  /\ RestIdle
  /\ OuterIdle

\* A caller invokes signatureUrl.
SignatureInvoke ==
  /\ pc = "idle"
  /\ facade.phase = "none"
  /\ \E m \in SignatureMethods, b \in FacadeBuckets, k \in FacadeKeys,
        o \in SignatureOptions :
       LET entry == signatureUrl(m, b, k, o)
           invoked == [ name |-> "signatureUrl", bucketName |-> b, objectKey |-> k,
                        options |-> Some(o), phase |-> "running",
                        result |-> NoOutcome ]
       IN  IF entry.kind = "request"
             THEN /\ facade' = invoked
                  /\ requestConfig' = entry.request
                  /\ pc' = "presign"
             ELSE /\ facade' = [ invoked EXCEPT !.phase = "settled", !.result = entry ]
                  /\ requestConfig' = requestConfig
                  /\ pc' = "complete"
  /\ UNCHANGED << clientConfig, d, headerVars, canonVars, signVars, wireVars,
                  facadeRest >>

\* super.generatePresignedUrl(requestConfig)
Presign ==
  /\ pc = "presign"
  /\ facade.phase = "running"
  /\ signature' = PresignedSignature(clientConfig, requestConfig, d)
  /\ fullUrl' = generatePresignedUrl(clientConfig, requestConfig, d)
  /\ facade' = [ facade EXCEPT !.phase = "settled",
                               !.result = [ kind |-> "return", value |-> fullUrl' ] ]
  /\ pc' = "complete"
  /\ UNCHANGED << clientConfig, inputVars, headerVars, canonVars, scope, strToSign,
                  keyData, msgData, authorization, fetched, response, outcome,
                  facadeRest >>

SignatureNext ==
  \/ SignatureInvoke
  \/ Presign
  \/ FacadeDismiss

SignatureSpec == SignatureInit /\ [][SignatureNext]_vars

(***************************************************************************)
(* BucketOperation.listObjects: the nodes of Contents and CommonPrefixes   *)
(***************************************************************************)

\* The nodes of a repeated element as listObjects takes them: none when the
\* element is absent, the array, or the one object wrapped into an array.
ListObjectsNodes(element) ==
  IF ~element.def THEN << >>
  ELSE IF element.v.isArray THEN element.v.nodes
  ELSE << element.v.node >>

(***************************************************************************)
(* doRequest under headers of the caller that name headers of its own      *)
(***************************************************************************)

\* Headers of a caller that meet the base headers and the forced
\* content-length, in the spelling of doRequest and capitalized.
OverlayHeaders ==
  { Undefined,
    Some(<< << HHost, << "c", "d", "n" >> >> >>),
    Some(<< << << "H", "o", "s", "t" >>, << "c", "d", "n" >> >> >>),
    Some(<< << HContentLength, << "5" >> >> >>),
    Some(<< << << "C", "o", "n", "t", "e", "n", "t", "-", "L", "e", "n", "g", "t", "h" >>, << "5" >> >> >>),
    Some(<< << HOssDate, << "2", "0", "2", "0", "0", "2", "0", "2", "T", "0", "2", "0", "2", "0",
             "2", "Z" >> >>,
            << HContentType, << "t", "/", "x" >> >> >>) }

OverlayRequests ==
  { r \in [ method : Methods, bucketName : { Some(<< "b", "k" >>) },
            objectKey : { Some(<< "a" >>) }, headers : OverlayHeaders,
            query : { Undefined }, body : Bodies ] :
      r.body.def => r.method = PUT }

OverlayCall ==
  /\ pc = "idle"
  /\ requestConfig' \in OverlayRequests
  /\ ClearLocals
  /\ pc' = "headers"
  /\ UNCHANGED << configVars, d >>

OverlayNext ==
  \/ OverlayCall
  \/ BuildAllHeaders
  \/ SelectHeadersToSign
  \/ Canonicalize
  \/ HashCanonicalRequest
  \/ BuildStringToSign
  \/ EncodeSecret
  \/ DeriveDateKey
  \/ DeriveRegionKey
  \/ DeriveServiceKey
  \/ DeriveSigningKey
  \/ Sign
  \/ Authorize
  \/ BuildUrl
  \/ FacadeFetch
  \/ HandleResponse
  \/ Return

OverlaySpec == FacadeInit /\ [][OverlayNext]_vars

(***************************************************************************)
(* BucketOperation.getBucketInfo: from the ResponseResult to the BucketInfo *)
(***************************************************************************)

\* The Bucket elements of the documents a server answers with.
BucketNodes ==
  { [ Name |-> << "b", "k" >>, Location |-> << "o", "s", "s", "-", "c", "n" >>,
      Region |-> << "c", "n" >>, StorageClass |-> << "S", "t", "a", "n", "d", "a", "r", "d" >>,
      CreationDate |-> << "2", "0", "1", "3", "-", "0", "7", "-", "3", "1", "T", "1", "0", ":",
                                     "5", "6", ":", "2", "1", ".", "0", "0", "0", "Z" >> ],
    [ Name |-> << "b", "k" >>, Location |-> << "o", "s", "s", "-", "u", "s" >>,
      Region |-> << "u", "s" >>, StorageClass |-> << "I", "A" >>,
      CreationDate |-> << "2", "0", "2", "4", "-", "0", "1", "-", "0", "1", "T", "0", "0", ":",
                                     "0", "0", ":", "0", "0", ".", "0", "0", "0", "Z" >> ] }

\* The text of a GetBucketInfo answer, as the document parseXml makes of it.
BucketInfoBody(node) ==
  [ kind |-> "xml", Error |-> Undefined, BucketInfo |-> [ Bucket |-> node ] ]

InfoResponses ==
  { Response(200, BucketInfoBody(node)) : node \in BucketNodes }
    \cup { Response(404, Envelope), Response(503, EmptyBody), TransportFailure }

\* What parseXml does with a value that is not a string: it throws while
\* it reads it (TypeError) or rejects it (SyntaxError).
NotAString == { TypeError, ParserError }

\* parseXml called with its argument: the document of a text, and for a
\* value that is not a string one of the ways to throw.
ParseXmlArgument(argument) ==
  IF argument.kind = "return" THEN NotAString
  ELSE { IF ParseXml(argument).ok THEN [ kind |-> "document", doc |-> argument ]
         ELSE ParserError }

\* The BucketInfo made of the Bucket node.
BucketInfoOf(bucketNode) ==
  [ name |-> bucketNode.Name, location |-> bucketNode.Location,
    region |-> bucketNode.Region, storageClass |-> bucketNode.StorageClass,
    creationDate |-> bucketNode.CreationDate ]

\* parseXml given the content of the ResponseResult.
GetBucketInfoResults_Content(handed) ==
  IF handed.kind # "return" THEN { handed }
  ELSE { IF parsed.kind = "document"
           THEN [ kind |-> "return", value |-> BucketInfoOf(parsed.doc.BucketInfo.Bucket) ]
           ELSE parsed : parsed \in ParseXmlArgument(handed.content) }

\* getBucketInfo after doRequest: parseXml is given what doRequest returned,
\* the ResponseResult itself.
GetBucketInfoResults(handed) ==
  IF handed.kind # "return" THEN { handed }
  ELSE { IF parsed.kind = "document"
           THEN [ kind |-> "return", value |-> BucketInfoOf(parsed.doc.BucketInfo.Bucket) ]
           ELSE parsed : parsed \in ParseXmlArgument(handed) }

\* A caller invokes getBucketInfo.
InfoInvoke ==
  /\ pc = "idle"
  /\ facade.phase = "none"
  /\ \E b \in FacadeBuckets :
       /\ facade' = [ name |-> "getBucketInfo", bucketName |-> b,
                      objectKey |-> Undefined, options |-> Undefined,
                      phase |-> "running", result |-> NoOutcome ]
       /\ requestConfig' = getBucketInfo(b).request
  /\ pc' = "headers"
  /\ UNCHANGED << clientConfig, d, headerVars, canonVars, signVars, wireVars,
                  facadeRest >>

InfoFetch == FetchFrom(InfoResponses)

\* doRequest has returned or thrown.
InfoComplete ==
  /\ pc = "done"
  /\ facade.phase = "running"
  /\ \E result \in GetBucketInfoResults(outcome) :
       facade' = [ facade EXCEPT !.phase = "settled", !.result = result ]
  /\ pc' = "complete"
  /\ UNCHANGED << clientConfig, inputVars, headerVars, canonVars, signVars,
                  wireVars, facadeRest >>

InfoNext ==
  \/ InfoInvoke
  \/ BuildAllHeaders
  \/ SelectHeadersToSign
  \/ Canonicalize
  \/ HashCanonicalRequest
  \/ BuildStringToSign
  \/ EncodeSecret
  \/ DeriveDateKey
  \/ DeriveRegionKey
  \/ DeriveServiceKey
  \/ DeriveSigningKey
  \/ Sign
  \/ Authorize
  \/ BuildUrl
  \/ InfoFetch
  \/ HandleResponse
  \/ InfoComplete
  \/ FacadeDismiss

InfoSpec == FacadeInit /\ [][InfoNext]_vars

(***************************************************************************)
(* Properties of the canonicalizer                                         *)
(***************************************************************************)

Reverse(seq) == [ i \in 1..Len(seq) |-> seq[Len(seq) + 1 - i] ]

Count(seq, c) == Cardinality({ i \in 1..Len(seq) : seq[i] = c })

\* The text before the first occurrence of a separator.
Before(text, sep) == Split(text, sep)[1]

\* The '&'-separated entries of the canonical query string.
EmittedEntries == IF canonicalQuery = << >> THEN << >> ELSE Split(canonicalQuery, "&")

EmittedKeys ==
  LET entries == EmittedEntries
  IN  [ i \in 1..Len(entries) |-> Before(entries[i], "=") ]

\* C1: the canonical query string lists its entries in ascending order of
\* key under code-unit comparison, whatever the letter case or punctuation
\* of the keys, and the same map in another property order gives the same
\* string.
C1_QueryKeysInOrdinalOrder ==
  (pc = "queryDone" /\ requestConfig.query.def) =>
    /\ \A i \in 1..(Len(EmittedKeys) - 1) :
         OrdinalCompare(EmittedKeys[i], EmittedKeys[i + 1]) < 0
    /\ canonicalQuery =
         BuildCanonicalQueryString(Some(Reverse(requestConfig.query.v)))

\* A value that is null, undefined or blank after trimming.
IsBareValue(v) ==
  \/ v.t \in {"null", "undefined"}
  \/ \A i \in 1..Len(ValueToString(v)) : IsWhiteSpace(ValueToString(v)[i])

ExpectedEntry(e) ==
  IF IsBareValue(e[2]) THEN e[1]
  ELSE e[1] \o << "=" >> \o EncodeURIComponent(ValueToString(e[2]))

\* C2: every entry with a null, undefined or blank value is emitted as the
\* bare key and every other entry as key=percent-encoded-value, the entries
\* are joined with '&', an absent or empty query gives the empty string,
\* and the two worked examples come out as "a&b=2" and
\* "marker&max-keys=100".
C2_QueryEntries ==
  pc = "queryDone" =>
    LET q == requestConfig.query
    IN  /\ (~q.def \/ q.v = << >>) => canonicalQuery = << >>
        /\ (q.def /\ q.v # << >>) =>
             /\ Len(EmittedEntries) = Len(q.v)
             /\ \A i \in 1..Len(q.v) :
                  \E j \in 1..Len(EmittedEntries) :
                    EmittedEntries[j] = ExpectedEntry(q.v[i])
             /\ Count(canonicalQuery, "&") = Len(q.v) - 1
        /\ q = Some(<< << << "b" >>, StringValue(<< "2" >>) >>,
                       << << "a" >>, NullValue >> >>)
             => Str(canonicalQuery) = "a&b=2"
        /\ q = Some(<< << MaxKeys, NumberValue(100) >>,
                       << Marker, UndefinedValue >> >>)
             => Str(canonicalQuery) = "marker&max-keys=100"

\* A map with a blank-valued entry and an entry whose value needs escaping
\* has been canonicalized.
C2_Witness ==
  /\ pc = "queryDone"
  /\ requestConfig.query.def
  /\ \E i, j \in 1..Len(requestConfig.query.v) :
       /\ requestConfig.query.v[i][2] = StringValue(<< " ", "\t" >>)
       /\ requestConfig.query.v[j][2] = StringValue(<< "2", "/", " " >>)
  /\ Count(canonicalQuery, "=") = 1
  /\ Count(canonicalQuery, "%") = 2

\* The lines of the canonical header block, without the closing newline.
HeaderLines ==
  IF canonicalHeaders = << "\n" >> \/ canonicalHeaders = << >> THEN << >>
  ELSE Split(SubSeq(canonicalHeaders, 1, Len(canonicalHeaders) - 1), "\n")

HeaderLineKeys ==
  LET lines == HeaderLines
  IN  [ i \in 1..Len(lines) |-> Before(lines[i], ":") ]

\* C3: the canonical header block has one 'key:value' line per header, key
\* lower-cased and value trimmed, the keys strictly ascending, a newline
\* after every line (an empty or absent map gives just a newline), and the
\* same map in another property order gives the same block.
C3_HeaderBlockSortedAndOrderFree ==
  pc = "headersDone" =>
    /\ canonicalHeaders # << >>
    /\ canonicalHeaders[Len(canonicalHeaders)] = "\n"
    /\ Len(HeaderLines) = Len(headersToSign)
    /\ \A i \in 1..Len(headersToSign) :
         \E j \in 1..Len(HeaderLines) :
           HeaderLines[j] =
             ToLowerCase(headersToSign[i][1]) \o << ":" >> \o Trim(headersToSign[i][2])
    /\ \A i \in 1..(Len(HeaderLineKeys) - 1) :
         OrdinalCompare(HeaderLineKeys[i], HeaderLineKeys[i + 1]) < 0
    /\ canonicalHeaders = BuildCanonicalHeaders(Some(Reverse(headersToSign)))

\* C4: with bucket and key the canonical URI is '/' + encoded bucket + '/'
\* + the key with each '/'-delimited segment percent-encoded on its own (as
\* many '/' as the key has, no raw space or '#'); with a bucket only it is
\* '/' + encoded bucket + '/'; without a bucket it is '/'.
C4_CanonicalUri ==
  pc = "uriDone" =>
    LET b == requestConfig.bucketName
        k == requestConfig.objectKey
        prefix == << "/" >> \o EncodeURIComponent(b.v) \o << "/" >>
        rest == SubSeq(canonicalUri, Len(prefix) + 1, Len(canonicalUri))
        segs == Split(k.v, "/")
    IN  /\ (Truthy(b) /\ Truthy(k)) =>
             /\ StartsWith(canonicalUri, prefix)
             /\ Split(rest, "/") = [ i \in 1..Len(segs) |-> EncodeURIComponent(segs[i]) ]
             /\ Count(rest, "/") = Count(k.v, "/")
             /\ Count(canonicalUri, " ") = 0
             /\ Count(canonicalUri, "#") = 0
        /\ (Truthy(b) /\ ~Truthy(k)) => canonicalUri = prefix
        /\ ~Truthy(b) => canonicalUri = << "/" >>
        /\ (b = Some(MyBucket) /\ k = Some(ExampleKey))
             => Str(canonicalUri) = "/my-bucket/a/b%20c.png"

\* The URI of a two-level key with a space and a '#' in a segment.
C4_Witness ==
  /\ pc = "uriDone"
  /\ requestConfig.bucketName = Some(MyBucket)
  /\ requestConfig.objectKey = Some(<< " ", "/", "#" >>)
  /\ Str(canonicalUri) = "/my-bucket/%20/%23"

(***************************************************************************)
(* Properties of doRequest                                                 *)
(***************************************************************************)

\* Positions at which the string to sign, the signature and the
\* Authorization header have been built.
AfterStringToSign ==
  { "secret", "dateKey", "regionKey", "serviceKey", "signingKey", "sign",
    "authorize", "url", "fetch", "status", "done" }
AfterSign == { "authorize", "url", "fetch", "status", "done" }
AfterAuthorize == { "url", "fetch", "status", "done" }

\* The selection rule, on a lower-cased header name.
InSignedRule(name) ==
  \/ Str(name) \in { "content-type", "content-md5", "host" }
  \/ (Len(name) >= 6 /\ Str(SubSeq(name, 1, 6)) = "x-oss-")

\* The entries of the wire header set that fall under the rule.
SignedOnWire(headers) ==
  SelectSeq(headers, LAMBDA e : InSignedRule(ToLowerCase(e[1])))

AdditionalKeys ==
  IF additionalHeaders = << >> THEN << >> ELSE Split(additionalHeaders, ";")

C6_CanonicalRequest ==
  /\ pc \in { "digest", "fetch" } =>
       /\ canonicalRequest =
            Join(<< requestConfig.method, canonicalUri, canonicalQuery,
                    canonicalHeaders, additionalHeaders, UNSIGNED_PAYLOAD >>,
                 << "\n" >>)
       /\ Len(canonicalRequest) >= 17
       /\ Str(SubSeq(canonicalRequest, Len(canonicalRequest) - 16,
                     Len(canonicalRequest))) = "\nUNSIGNED-PAYLOAD"
  /\ pc \in { "scope", "fetch" } =>
       hashedRequest = << "hex[sha256[utf8[" \o Str(canonicalRequest) \o "]]]" >>

\* The canonical request of a PUT with a body has been hashed.
C6_Witness ==
  /\ pc = "scope"
  /\ requestConfig.method = PUT
  /\ requestConfig.body.def
  /\ requestConfig.query.def
  /\ Truthy(requestConfig.objectKey)

\* The keys of the chain, as the claim writes them.
K0 == "utf8[aliyun_v4" \o Str(clientConfig.accessKeySecret) \o "]"
K1 == Hmac(K0, "utf8[" \o Str(dateString) \o "]")
K2 == Hmac(K1, "utf8[" \o Str(clientConfig.region) \o "]")
K3 == Hmac(K2, "utf8[oss]")
K4 == Hmac(K3, "utf8[aliyun_v4_request]")

\* C7: the signing key is derived by four HMAC-SHA256 steps over the date,
\* the region, "oss" and "aliyun_v4_request", each keyed by the output of
\* the step before, starting from "aliyun_v4" + accessKeySecret, and the
\* signature is the hex of the HMAC of the string to sign under that key.
C7_KeyChain ==
  /\ pc = "dateKey" => keyData = K0
  /\ pc = "regionKey" => keyData = K1
  /\ pc = "serviceKey" => keyData = K2
  /\ pc = "signingKey" => keyData = K3
  /\ pc = "sign" => keyData = K4
  /\ pc \in AfterSign =>
       signature = << "hex[" \o Hmac(K4, "utf8[" \o Str(strToSign) \o "]") \o "]" >>

\* A signature has been computed.
C7_Witness ==
  /\ pc = "authorize"
  /\ signature # << >>
  /\ keyData = K4
  /\ Str(dateString) = "20231203"

\* C8: the string to sign is OSS4-HMAC-SHA256, dateTimeString, scope and
\* the hashed canonical request on four lines, scope is
\* dateString/region/oss/aliyun_v4_request, dateString is the first eight
\* characters of dateTimeString, and the x-oss-date header of the request
\* carries that same dateTimeString, whatever headers the caller passed.
C8_StringToSignDate ==
  pc \in AfterStringToSign =>
    /\ strToSign =
         Join(<< SIG_VERSION, dateTimeString, scope, hashedRequest >>, << "\n" >>)
    /\ Str(scope) = Str(dateString) \o "/" \o Str(clientConfig.region)
                      \o "/oss/aliyun_v4_request"
    /\ Len(dateTimeString) = 16
    /\ dateString = SubSeq(dateTimeString, 1, 8)
    /\ \E i \in 1..Len(allHeaders) : Str(ToLowerCase(allHeaders[i][1])) = "x-oss-date"
    /\ \A i \in 1..Len(allHeaders) :
         Str(ToLowerCase(allHeaders[i][1])) = "x-oss-date"
           => allHeaders[i][2] = dateTimeString

Lines(text) == Split(text, "\n")

\* C9: the Authorization header is OSS4-HMAC-SHA256 Credential=accessKeyId/
\* scope,AdditionalHeaders=additionalHeaders,Signature=signature with the
\* scope of the string to sign and the additional headers of the canonical
\* request; it is inserted once the signature exists, and from then on no
\* signed header is added, removed or changed.
C9_Authorization ==
  /\ [](pc = "authorize" =>
          /\ signature # << >>
          /\ ~HasKey(allHeaders, HAuthorization))
  /\ [](pc \in AfterAuthorize =>
          /\ HasKey(allHeaders, HAuthorization)
          /\ Get(allHeaders, HAuthorization) = authorization
          /\ Str(authorization) =
               "OSS4-HMAC-SHA256 Credential=" \o Str(clientConfig.accessKeyId)
                 \o "/" \o Str(Lines(strToSign)[3])
                 \o ",AdditionalHeaders="
                 \o Str(Lines(canonicalRequest)[Len(Lines(canonicalRequest)) - 1])
                 \o ",Signature=" \o Str(signature))
  /\ [][(pc \in AfterSign /\ pc' \in AfterSign)
          => SignedOnWire(allHeaders') = SignedOnWire(allHeaders)]_vars

\* A request with a caller's signed header has been authorized and sent.
C9_Witness ==
  /\ pc = "status"
  /\ Len(fetched) = 1
  /\ HasKey(fetched[1].headers, HAuthorization)
  /\ \E i \in 1..Len(headersToSign) : Str(headersToSign[i][1]) = "Content-Type"

UrlQuery ==
  LET parts == Split(fullUrl, "?")
  IN  IF Len(parts) = 1 THEN << >> ELSE parts[2]

\* C10: the URL is scheme://domainName + requestUri, then '?' and the
\* canonical query string only when that string is not empty; domainName is
\* bucket.endpoint or the endpoint alone; requestUri is '/' + the key with
\* each segment percent-encoded, or '/'; the query of the URL is the signed
\* canonical query string; with bucket and key the signed canonical URI is
\* '/' + encoded bucket + requestUri.
C10_RequestUrl ==
  pc \in { "fetch", "status" } =>
    LET b == requestConfig.bucketName
        k == requestConfig.objectKey
        scheme == IF clientConfig.secure THEN "https://" ELSE "http://"
        segs == Split(k.v, "/")
    IN  /\ Str(fullUrl) =
             scheme \o Str(domainName) \o Str(requestUri)
               \o (IF canonicalQuery # << >> THEN "?" \o Str(canonicalQuery) ELSE "")
        /\ Count(fullUrl, "?") = IF canonicalQuery # << >> THEN 1 ELSE 0
        /\ domainName =
             IF Truthy(b) THEN b.v \o << "." >> \o clientConfig.endpoint
             ELSE clientConfig.endpoint
        /\ Truthy(k) =>
             /\ Head(requestUri) = "/"
             /\ Split(Tail(requestUri), "/")
                  = [ i \in 1..Len(segs) |-> EncodeURIComponent(segs[i]) ]
        /\ ~Truthy(k) => requestUri = << "/" >>
        /\ UrlQuery = Lines(canonicalRequest)[3]
        /\ (Truthy(b) /\ Truthy(k)) =>
             canonicalUri = << "/" >> \o EncodeURIComponent(b.v) \o requestUri
        /\ pc = "status" => (Len(fetched) = 1 /\ fetched[1].url = fullUrl)

\* The URL of a request with bucket, key and query over plain http, and of
\* one without a query, have been built.
C10_Witness ==
  /\ pc = "fetch"
  /\ ~clientConfig.secure
  /\ Truthy(requestConfig.bucketName)
  /\ Truthy(requestConfig.objectKey)
  /\ Str(fullUrl) = "http://bk.oss.io/a/b%20c?marker&max-keys=100"

(***************************************************************************)
(* Properties of calls side by side                                        *)
(***************************************************************************)

\* What the claim fixes: method, bucket, key, query, timestamp and the
\* caller's headers that fall under the signing rule (the credentials and
\* the region are the Operation's and the same for every call).
SignedInputs(call) ==
  [ method |-> call.request.method,
    bucketName |-> call.request.bucketName,
    objectKey |-> call.request.objectKey,
    query |-> call.request.query,
    headers |-> IF call.request.headers.def
                  THEN SignedOnWire(call.request.headers.v) ELSE << >>,
    d |-> call.d ]

\* C11: two calls on one Operation with the same method, bucket, key,
\* query, timestamp and signed headers compute the same Authorization
\* value, whatever their bodies and their other headers are and however
\* the two calls interleave.
C11_AuthorizationDeterministic ==
  \A i, j \in 1..MaxCalls :
    (/\ calls[i].phase = "fetch"
     /\ calls[j].phase = "fetch"
     /\ SignedInputs(calls[i]) = SignedInputs(calls[j]))
      => calls[i].authorization = calls[j].authorization

\* Two calls in flight at once that agree on the signed inputs, one a PUT
\* with a body and no caller headers, the other without a body and with a
\* caller header that is not signed.
C11_Witness ==
  /\ calls[1].phase = "fetch" /\ calls[2].phase = "fetch"
  /\ calls[1].request.method = PUT /\ calls[2].request.method = PUT
  /\ calls[1].request.body.def /\ ~calls[2].request.body.def
  /\ ~calls[1].request.headers.def
  /\ calls[2].request.headers.def
  /\ Str(calls[2].request.headers.v[1][1]) = "Cache-Control"
  /\ calls[1].d = calls[2].d
  /\ calls[1].authorization = calls[2].authorization
  /\ calls[1].authorization # NoText

(***************************************************************************)
(* Properties of the classification of the response                        *)
(***************************************************************************)

\* C12: a response with status 500 or above makes doRequest throw a
\* ClientError whose status is the status of the response, and return no
\* result.
C12_ServerErrorCarriesStatus ==
  (pc = "done" /\ response.ok /\ response.status >= 500) =>
    /\ outcome.kind = "throw"
    /\ outcome.error.status = Some(response.status)

\* C13: a response with status 400..499 makes doRequest throw a ClientError:
\* with the fields of the error envelope when the body is one, with the
\* message "unknown error" when the body is empty or anything else, and
\* never anything but a ClientError.
C13_ClientErrorFromBody ==
  (/\ pc = "done" /\ response.ok
   /\ 400 <= response.status /\ response.status < 500
   /\ response.body.kind # "aborted") =>
    /\ outcome.kind = "throw"
    /\ IF response.body.kind = "xml" /\ response.body.Error.def
         THEN LET n == response.body.Error.v
              IN  /\ outcome.error.message = Some(n.Message)
                  /\ outcome.error.code = Some(n.Code)
                  /\ outcome.error.requestId = Some(n.RequestId)
                  /\ outcome.error.hostId = Some(n.HostId)
                  /\ outcome.error.bucketName = Some(n.BucketName)
                  /\ outcome.error.ec = Some(n.EC)
                  /\ outcome.error.recommendDoc = Some(n.RecommendDoc)
         ELSE /\ outcome.error.message.def
              /\ Str(outcome.error.message.v) = "unknown error"

TransportFailed(r) ==
  ~r.ok \/ (r.status < 500 /\ r.body.kind = "aborted")

\* C14: doRequest returns {headers, content}, the header names in lower
\* case, exactly when the transport delivered a response with a status
\* below 400, and throws exactly when the status is 400 or above or the
\* transport failed; it never does both or neither, and fetch is called
\* once.
C14_ReturnOrThrow ==
  pc = "done" =>
    LET returns == outcome.kind = "return"
        throws == outcome.kind \in { "throw", "throw-transport", "throw-parser" }
    IN  /\ returns # throws
        /\ returns <=> (~TransportFailed(response) /\ response.status < 400)
        /\ throws <=> (TransportFailed(response) \/ response.status >= 400)
        /\ outcome.kind = "throw-transport" <=> TransportFailed(response)
        /\ Len(fetched) = 1
        /\ returns =>
             /\ outcome.content = response.body
             /\ Len(outcome.headers) = Len(response.headers)
             /\ \A i \in 1..Len(outcome.headers) :
                  /\ outcome.headers[i][1] = ToLowerCase(response.headers[i][1])
                  /\ outcome.headers[i][2] = response.headers[i][2]
                  /\ Str(outcome.headers[i][1]) = "etag"

\* A 304 has been returned as a result.
C14_Witness ==
  /\ pc = "done"
  /\ response.ok /\ response.status = 304
  /\ outcome.kind = "return"
  /\ Len(outcome.headers) = 1
(***************************************************************************)
(* Properties of the facades                                               *)
(***************************************************************************)

\* The operation of the facade has gone through doRequest and a response
\* was delivered.
Answered(name) ==
  /\ facade.name = name
  /\ facade.phase = "settled"
  /\ fetched # << >>
  /\ response.ok

\* C15: headObject called with a conditional option and answered 304 or
\* 412 throws a ClientError whose status is 304 or 412 respectively; it
\* returns the headers of the object only when the answer is 200.
C15_HeadObjectConditional ==
  (Answered("headObject") /\ facade.options.def) =>
    /\ response.status \in { 304, 412 } =>
         /\ facade.result.kind = "throw"
         /\ facade.result.error.status = Some(response.status)
    /\ facade.result.kind = "return" => response.status = 200
\* The operation in progress was given a blank argument.
BlankArgument ==
  \/ isBlank(facade.bucketName)
  \/ facade.name \in ObjectFacades /\ isBlank(facade.objectKey)

\* C17: an operation given a bucket name or object key that is null,
\* undefined, empty or whitespace-only fails with a validation ClientError,
\* and no HTTP request is issued for it.
C17_BlankArgumentFailsFast ==
  (facade.phase # "none" /\ BlankArgument) =>
    /\ facade.phase = "settled"
    /\ facade.result.kind = "throw"
    /\ facade.result.error.code = Undefined
    /\ fetched = << >>
\* The marker in the query of a request on the wire.
MarkerOnWire(wire) ==
  LET parts == Split(wire.url, "?")
      prefix == QMarker \o << "=" >>
  IN  IF Len(parts) > 1 /\ StartsWith(parts[2], prefix)
        THEN Some(SubSeq(parts[2], Len(prefix) + 1, Len(parts[2])))
        ELSE Undefined

\* The buckets of the first n pages of a server, page after page.
RECURSIVE BucketsOfPages(_, _)
BucketsOfPages(server, n) ==
  IF n = 0 THEN << >>
  ELSE BucketsOfPages(server, n - 1)
         \o [ i \in 1..Len(server[n].buckets) |-> [ name |-> server[n].buckets[i] ] ]

\* C16: listAllBuckets asks page after page: the first request carries no
\* marker, request k + 1 goes out only after response k has been taken in
\* and carries its nextMarker, and against a server of n pages whose
\* answers all arrive it issues n requests and returns the buckets of all
\* pages in page order and in-page order.
C16_ListAllBucketsSequential ==
  listing.phase # "none" =>
    /\ Len(fetched) <= Len(listing.results) + 1
    /\ \A k \in 1..Len(fetched) :
         MarkerOnWire(fetched[k]) =
           IF k = 1 THEN Undefined ELSE listing.server[k - 1].nextMarker
    /\ (listing.phase = "settled" /\ response.ok) =>
         /\ Len(fetched) = Len(listing.server)
         /\ listing.result =
              [ kind |-> "return",
                value |-> BucketsOfPages(listing.server, Len(listing.server)) ]
(***************************************************************************)
(* Properties of the local files                                           *)
(***************************************************************************)

\* C18: when putObject or getObject has returned or thrown, on whatever
\* path, no file handle that it opened is still open, and the error of
\* closing a handle that the stream had closed already is not what the
\* caller gets.
C18_FileHandlesClosed ==
  transfer.step = "settled" =>
    /\ transfer.handle \in { "none", "closed" }
    /\ transfer.result # RuntimeError("BadResource")
    /\ transfer.result.kind # "pending"

\* An upload answered 404: the stream had closed the file, the close of the
\* finally threw and was swallowed, and the caller gets the error of the
\* server.
C18_Witness ==
  /\ transfer.op = "putObject" /\ transfer.step = "settled"
  /\ response.ok /\ response.status = 404
  /\ transfer.handle = "closed" /\ transfer.closeRaised
  /\ transfer.result.kind = "throw"
(***************************************************************************)
(* Properties of the OssClient                                             *)
(***************************************************************************)

\* What the caller gave for an option, or the documented default.
Effective(p) ==
  IF client.given.def /\ client.given.v[p].def THEN client.given.v[p]
  ELSE DefaultOptions[p]

\* C20: the options given to the constructor take effect: the URL of every
\* request is http:// when secure was given as false and https:// when it
\* was given as true or left out, and the cname and timeoutMs of the
\* ClientConfig of the operations are the ones given.
C20_OptionsTakeEffect ==
  client.options.def =>
    /\ \A i \in 1..Len(fetched) :
         StartsWith(fetched[i].url, IF Effective("secure").v THEN Https ELSE Http)
    /\ clientConfig.cname = Effective("cname").v
    /\ clientConfig.timeoutMs = Effective("timeoutMs")
(***************************************************************************)
(* Properties of the wait for the transport                                *)
(***************************************************************************)

\* The configured timeout has passed and the transport has not answered.
Overdue ==
  /\ pc = "pending"
  /\ clientConfig.timeoutMs.def
  /\ clock.elapsed >= clientConfig.timeoutMs.v

\* C19: with timeoutMs configured, an operation whose request the transport
\* has not answered within that time fails with a timeout error: it does
\* not go on waiting.
C19_TimeoutFires ==
  Overdue ~> (pc = "done" /\ outcome.kind = "throw-timeout")
(***************************************************************************)
(* Properties of the pre-signed URL                                        *)
(***************************************************************************)

\* signatureUrl has returned a URL.
Presigned ==
  /\ pc = "complete"
  /\ facade.name = "signatureUrl"
  /\ facade.result.kind = "return"

\* The response* options of the options.
ResponseOptions(options) ==
  SelectSeq(options.props, LAMBDA p : StartsWith(p[1], OResponse))

\* A host the URL is served from after signing.
CdnHost == << "c", "d", "n", ".", "i", "o" >>

\* The signature stays the one of the URL under another host name.
HostNotSigned ==
  signature = PresignedSignature([ clientConfig EXCEPT !.endpoint = CdnHost ],
                                 requestConfig, d)

\* The query holds every entry of additionalParameters.
AdditionalParametersKept(options, query) ==
  options.additionalParameters.def =>
    \A i \in 1..Len(options.additionalParameters.v) :
      LET p == options.additionalParameters.v[i]
      IN  HasKey(query, p[1]) /\ Get(query, p[1]) = StringValue(p[2])

Named(options, k) ==
  options.additionalParameters.def /\ HasKey(options.additionalParameters.v, k)

Downloaded ==
  /\ transfer.op = "getObject" /\ transfer.step = "settled"
  /\ Len(fetched) = 1 /\ response.ok

\* The answer passes every check of getObject.
Releasable(r) == r.ok /\ r.status = 200 /\ r.body.kind \notin { "empty", "aborted" }

PageReceived ==
  /\ pc = "done"
  /\ listing.phase = "await"
  /\ outcome.kind = "return"

\* C23: the parse of a list-buckets response has exactly one bucket per
\* Bucket element, in document order: n for an array of n, one for a single
\* element, none (and no error) for a response without Bucket element; the
\* same for the repeated elements of listObjects.
C23_OneBucketPerElement ==
  PageReceived =>
    LET page == listing.server[Len(fetched)]
        parsed == ParseListBucketsResponseContent(outcome.content)
    IN  /\ parsed.kind = "result"
        /\ parsed.buckets = [ i \in 1..Len(page.buckets) |-> [ name |-> page.buckets[i] ] ]
        /\ ListObjectsNodes(outcome.content.ListAllMyBucketsResult.Bucket)
             = page.buckets
(***************************************************************************)
(* Properties of the keys of createFolder and putStream                    *)
(***************************************************************************)

\* The facade passed its validation and handed a request to doRequest.
Sent(name) ==
  /\ facade.name = name
  /\ facade.phase = "running"

\* C24: for every non-blank folderPath the object key that createFolder
\* sends has no leading '/' and ends with '/', so that it is a non-empty key
\* of a folder object and not the root of the bucket, and the request is a
\* PUT without body.
C24_FolderKey ==
  Sent("createFolder") =>
    /\ requestConfig.objectKey.def
    /\ requestConfig.objectKey.v # << >>
    /\ Head(requestConfig.objectKey.v) # "/"
    /\ requestConfig.objectKey.v[Len(requestConfig.objectKey.v)] = "/"
    /\ requestConfig.method = PUT
    /\ ~requestConfig.body.def
    /\ \A i \in 1..Len(fetched) : fetched[i].method = PUT /\ ~fetched[i].body.def

\* C29: for every objectKey that passes the validation of putStream the key
\* handed to doRequest is non-empty and has no leading '/', so the PUT goes
\* to the path '/<key>' of the bucket and never to its root '/'.
C29_PutStreamKey ==
  Sent("putStream") =>
    /\ requestConfig.objectKey.def
    /\ requestConfig.objectKey.v # << >>
    /\ Head(requestConfig.objectKey.v) # "/"
    /\ requestConfig.method = PUT
    /\ pc \in { "url", "fetch", "status", "done" } => requestUri # << "/" >>
(***************************************************************************)
(* Properties of the wire header set                                       *)
(***************************************************************************)

\* The entries of a header map under a name, whatever its case.
EntriesNamed(headers, name) == SelectSeq(headers, LAMBDA h : ToLowerCase(h[1]) = name)

\* The headers the caller of doRequest supplied.
Supplied == IF requestConfig.headers.def THEN requestConfig.headers.v ELSE << >>

\* C25: the wire header set is the base headers date, host, x-sdk-client,
\* x-oss-content-sha256 and x-oss-date overlaid with the headers of the
\* caller: under every base name exactly one entry is sent, and at most one
\* signed; it carries the value of the caller when the caller names the
\* header and the base value otherwise, and what is signed is what is sent.
C25_CallerHeadersOverlay ==
  pc = "fetch" =>
    LET base == BaseHeaders(domainName, d, dateTimeString)
    IN  \A i \in 1..Len(base) :
          LET sent == EntriesNamed(allHeaders, base[i][1])
              signed == EntriesNamed(headersToSign, base[i][1])
              given == EntriesNamed(Supplied, base[i][1])
          IN  /\ Len(sent) = 1
              /\ sent[1][2] = IF given # << >> THEN given[1][2] ELSE base[i][2]
              /\ signed = IF IsSignedName(base[i][1]) THEN sent ELSE << >>

\* C26: a PUT without body goes out with content-length "0" whatever
\* content-length the caller supplied; for any other request doRequest
\* neither adds nor changes a content-length header.
C26_ForcedContentLength ==
  (pc = "status" /\ fetched # << >>) =>
    LET wire == fetched[Len(fetched)]
        sent == EntriesNamed(wire.headers, HContentLength)
    IN  IF requestConfig.method = PUT /\ ~requestConfig.body.def
          THEN Len(sent) = 1 /\ sent[1][2] = << "0" >>
          ELSE sent = EntriesNamed(Supplied, HContentLength)
(***************************************************************************)
(* Properties of the number of HTTP calls                                  *)
(***************************************************************************)

\* C27: an invocation of doRequest issues exactly one HTTP call whatever
\* the answer (2xx, 3xx, 4xx, 5xx, a failure of the transport): nothing is
\* sent before the fetch, one request is out once the fetch has settled, and
\* none is added while the answer is classified and handed back; so an
\* operation of a facade that makes one request issues one HTTP call when
\* its arguments pass its validation, and none otherwise.
C27_OneCallPerRequest ==
  /\ Len(fetched) <= 1
  /\ pc \in { "status", "done" } => Len(fetched) = 1
  /\ pc \in { "headers", "select", "canonicalize", "digest", "scope", "secret",
              "dateKey", "regionKey", "serviceKey", "signingKey", "sign",
              "authorize", "url", "fetch" } => fetched = << >>
  /\ facade.phase = "settled" =>
       Len(fetched) =
         IF FacadeEntry(facade.name, facade.bucketName, facade.objectKey,
                        facade.options).kind = "request" THEN 1 ELSE 0
  /\ \A i \in 1..Len(fetched) :
       fetched[i].method = requestConfig.method /\ fetched[i].url = fullUrl

\* deleteObject answered 503: doRequest has thrown, one request went out.
C27_Witness ==
  /\ facade.name = "deleteObject" /\ facade.phase = "settled"
  /\ response.ok /\ response.status = 503
  /\ facade.result.kind = "throw"
  /\ Len(fetched) = 1
(***************************************************************************)
(* Properties of the state that calls share                                *)
(***************************************************************************)

\* C28: no operation changes what calls share: no step of any call changes
\* the ClientConfig, and the RequestConfig of every call in flight, its
\* headers and its query, is as its caller wrote it, while the computed
\* headers are in the header set of the call.
C28_NoSharedMutation ==
  /\ [](\A i \in 1..MaxCalls :
          calls[i].phase # "idle" =>
            /\ calls[i].request = calls[i].given
            /\ calls[i].given \in ConcurrentRequests)
  /\ [][clientConfig' = clientConfig]_vars

\* Two calls in flight on one Operation, one with headers of its caller and
\* already authorized, the other waiting for its digest.
C28_Witness ==
  /\ calls[1].phase = "fetch" /\ calls[2].phase = "digest"
  /\ calls[1].given.headers.def
  /\ calls[1].request.headers = calls[1].given.headers
  /\ calls[1].authorization # NoText
  /\ Len(AllHeadersOf(clientConfig, calls[1].request, calls[1].d))
       > Len(calls[1].given.headers.v)
(***************************************************************************)
(* Properties of getBucketInfo                                             *)
(***************************************************************************)

\* C30: getBucketInfo issues one GET on the bucket with the bare query key
\* bucketInfo, and for an answer of 200 returns the BucketInfo whose name,
\* location, region, storageClass and creationDate are those of the
\* BucketInfo/Bucket element of the body.
C30_BucketInfoFromBody ==
  (facade.name = "getBucketInfo" /\ facade.phase = "settled") =>
    /\ Len(fetched) = 1
    /\ fetched[1].method = GET
    /\ fetched[1].url = BuildFullUrl(clientConfig.secure, domainName, << "/" >>,
                                     QBucketInfo)
    /\ (response.ok /\ response.status = 200) =>
         facade.result =
           [ kind |-> "return",
             value |-> BucketInfoOf(response.body.BucketInfo.Bucket) ]

====
